---- MODULE Spec2Model ----
(***************************************************************************)
(* A model of pennylane/operation.py: the Operator / Operation /           *)
(* Observable data model, its construction and queuing protocol, the       *)
(* inversion toggle, the representation methods and expand_matrix.         *)
(*                                                                         *)
(* Python values are modelled as sequences of integers: a scalar k is the  *)
(* one-element sequence <<k>>, a list is the sequence of its elements.     *)
(* Wires(v) of such a value is then the value itself.  Real numbers are    *)
(* fixed-point integers with one digit below the precision that            *)
(* round(x, 10) keeps, in a unit in which pi is the number Pi below.       *)
(***************************************************************************)
EXTENDS Integers, Sequences, FiniteSets, TLC

VARIABLES
    ops,        \* the operators constructed so far; an operator's identity is its index
    recording,  \* QueuingContext.recording(): a recording context is active
    queue,      \* the recording context's queue: operator indices in append order
    info,       \* the annotations of the queue's entries, parallel to queue
    last,       \* the last call made and its outcome
    invLog,     \* per operator, where each completed inv() call was made ("in"/"out")
    calls,      \* the number of constructor calls made
    em,         \* the expand_matrix call under study: its input and its result
    tensors,    \* the Tensor objects constructed so far; a Tensor's identity is its index
    listHeap    \* the heap of Python list objects: a list's identity is its index

vars == <<ops, recording, queue, info, last, invLog, calls, em, tensors, listHeap>>

----------------------------------------------------------------------------
(* Bounds of the model *)

MaxOps == 1        \* constructor calls in one behaviour
MaxArgs == 2       \* positional arguments of a constructor call
MaxInv == 2        \* inv() calls on one operator
MaxOrder == 3      \* length of a wire_order given to expand_matrix
MaxOpWires == 2    \* wires of a base matrix given to expand_matrix
MaxTensorCalls == 2  \* calls that construct or change a Tensor in one behaviour
MaxFactors == 2    \* constituents of each of the two Tensors that are compared

----------------------------------------------------------------------------
(* Python's None, and the value universe *)

None == "None"

\* pi and 2 pi, 4 pi in the model's fixed-point unit (one digit below the
\* rounding precision): pi is 2 units of the kept precision.
Pi == 20
TwoPi == 2 * Pi
FourPi == 4 * Pi

\* The values a positional argument or the wires keyword can take.
ArgVals == { <<0>>, <<Pi>> }
WireVals == { <<0>>, <<0, 1>> }

ArgSeqs == UNION { [1..n -> ArgVals] : n \in 0..MaxArgs }

----------------------------------------------------------------------------
(* Wire-count enumeration: WiresEnum *)

AnyWires == -1
AllWires == 0

----------------------------------------------------------------------------
(* The exception hierarchy *)

ExcParent ==
    [ OperatorPropertyUndefined   |-> "Exception",
      DecompositionUndefinedError |-> "OperatorPropertyUndefined",
      TermsUndefinedError         |-> "OperatorPropertyUndefined",
      MatrixUndefinedError        |-> "OperatorPropertyUndefined",
      SparseMatrixUndefinedError  |-> "OperatorPropertyUndefined",
      EigvalsUndefinedError       |-> "OperatorPropertyUndefined",
      DiagGatesUndefinedError     |-> "OperatorPropertyUndefined",
      AdjointUndefinedError       |-> "OperatorPropertyUndefined",
      GeneratorUndefinedError     |-> "OperatorPropertyUndefined",
      ValueError                  |-> "Exception",
      AssertionError              |-> "Exception",
      AttributeError              |-> "Exception",
      TypeError                   |-> "Exception",
      IndexError                  |-> "Exception",
      WireError                   |-> "Exception",
      NotImplementedError         |-> "Exception",
      QueuingError                |-> "Exception",
      Exception                   |-> "BaseException" ]

RECURSIVE DerivesFrom(_, _)
\* issubclass(e, k) for exception kinds
DerivesFrom(e, k) ==
    IF e = k THEN TRUE
    ELSE IF e \in DOMAIN ExcParent THEN DerivesFrom(ExcParent[e], k)
    ELSE FALSE

\* The outcome of a call: a returned value, or a raised exception with its cause.
Ok(v) == [tag |-> "ok", val |-> v, err |-> None, cause |-> None]
Raise(e) == [tag |-> "raise", val |-> <<>>, err |-> e, cause |-> None]
RaiseFrom(e, c) == [tag |-> "raise", val |-> <<>>, err |-> e, cause |-> c]

IsOk(r) == r.tag = "ok"
Raises(r, e) == r.tag = "raise" /\ r.err = e

----------------------------------------------------------------------------
(* Complex numbers <<re, im>> and matrices (sequences of rows) *)

Conj(z) == <<z[1], -z[2]>>

\* qml.math.conj on a vector of eigenvalues
ConjVec(v) == [i \in 1..Len(v) |-> Conj(v[i])]

\* qml.math.conj(qml.math.T(M))
ConjT(M) == [i \in 1..Len(M) |-> [j \in 1..Len(M) |-> Conj(M[j][i])]]

\* np.linalg.eigvals on the triangular matrices of this model: the diagonal.
linalg_eigvals(M) == [i \in 1..Len(M) |-> M[i][i]]

\* A non-Hermitian, non-real triangular matrix, and a vector of eigenvalues.
MatU == << << <<0, 1>>, <<1, 0>> >>,
           << <<0, 0>>, <<1, -1>> >> >>
EigU == << <<1, 1>>, <<0, -1>> >>

Undef == [def |-> FALSE, val |-> <<>>]
Def(v) == [def |-> TRUE, val |-> v]

----------------------------------------------------------------------------
(* Gradient recipes: per parameter None or a list of <<c, a, s>> triples.  *)
(* Coefficients are in halves, shifts in units of pi/6.                    *)

NoRecipe == [isNone |-> TRUE, terms |-> <<>>]
Recipe(t) == [isNone |-> FALSE, terms |-> t]
FourTerm == Recipe(<< <<1, 1, 3>>, <<-1, 1, -3>>, <<2, 1, 1>>, <<-2, 1, -1>> >>)

\* the class attribute grad_recipe: None, or a tuple with one recipe per parameter
GradNone == [isNone |-> TRUE, val |-> <<>>]
GradList(l) == [isNone |-> FALSE, val |-> l]

----------------------------------------------------------------------------
(* The operator classes of the model: subclasses of Operator, Operation    *)
(* and Observable that differ in the attributes and static computations    *)
(* they override.  num_params = -1 stands for the inherited property       *)
(* (as many parameters as were passed); grad_method "default" for the      *)
(* inherited property.                                                     *)

DefaultParams == -1

ClassTable ==
    [ TempOperator |-> [base |-> "Operator", num_wires |-> 1,
                        num_params |-> DefaultParams, grad_method |-> "default",
                        grad_recipe |-> GradNone,
                        compute_matrix |-> Undef, compute_eigvals |-> Undef],
      RX           |-> [base |-> "Operation", num_wires |-> 1,
                        num_params |-> 1, grad_method |-> "A",
                        grad_recipe |-> GradNone,
                        compute_matrix |-> Def(MatU), compute_eigvals |-> Undef],
      CRX          |-> [base |-> "Operation", num_wires |-> 2,
                        num_params |-> 1, grad_method |-> "A",
                        grad_recipe |-> GradList(<<FourTerm>>),
                        compute_matrix |-> Undef, compute_eigvals |-> Def(EigU)],
      CustomOp     |->  [base |-> "Operation", num_wires |-> AnyWires,
                        num_params |-> DefaultParams, grad_method |-> "default",
                        grad_recipe |-> GradNone,
                        compute_matrix |-> Undef, compute_eigvals |-> Undef],
      RecipeOp     |-> [base |-> "Operation", num_wires |-> AllWires,
                        num_params |-> DefaultParams, grad_method |-> "A",
                        grad_recipe |-> GradList(<<FourTerm>>),
                        compute_matrix |-> Undef, compute_eigvals |-> Undef],
      Hermitian    |-> [base |-> "Observable", num_wires |-> 1,
                        num_params |-> 1, grad_method |-> "default",
                        grad_recipe |-> GradNone,
                        compute_matrix |-> Def(MatU), compute_eigvals |-> Undef],
      PauliZ       |-> [base |-> "Observable", num_wires |-> 1,
                        num_params |-> 0, grad_method |-> "default",
                        grad_recipe |-> GradNone,
                        compute_matrix |-> Undef, compute_eigvals |-> Def(EigU)],
      RY           |-> [base |-> "Operation", num_wires |-> 1,
                        num_params |-> 1, grad_method |-> "A",
                        grad_recipe |-> GradNone,
                        compute_matrix |-> Undef, compute_eigvals |-> Undef],
      RZ           |-> [base |-> "Operation", num_wires |-> 1,
                        num_params |-> 1, grad_method |-> "A",
                        grad_recipe |-> GradNone,
                        compute_matrix |-> Undef, compute_eigvals |-> Undef],
      AngleEmbedding |-> [base |-> "Operation", num_wires |-> AnyWires,
                        num_params |-> 1, grad_method |-> None,
                        grad_recipe |-> GradNone,
                        compute_matrix |-> Undef, compute_eigvals |-> Undef],
      QuadraticPhase |-> [base |-> "Operation", num_wires |-> 1,
                        num_params |-> 1, grad_method |-> "A",
                        grad_recipe |-> GradNone,
                        compute_matrix |-> Undef, compute_eigvals |-> Undef] ]

\* the classes whose constructor is Operator's, Operation's or Observable's
Classes == DOMAIN ClassTable \ {"RY", "RZ", "AngleEmbedding", "QuadraticPhase"}

\* isinstance(op, Operation) etc. for the model's classes
IsOperation(c) == ClassTable[c].base = "Operation"
IsObservable(c) == ClassTable[c].base = "Observable"

----------------------------------------------------------------------------
(* Construction *)

\* the wires keyword: None (the default) or a value
NoWires == [given |-> FALSE, val |-> <<>>]
WiresKw(v) == [given |-> TRUE, val |-> v]

\* Wires(v): the ordered wire labels of a value
Wires(v) == v

\* Operator.num_params: the class's fixed value, or the inherited property
\* returning self._num_params
num_params(c, passed) ==
    IF ClassTable[c].num_params = DefaultParams THEN passed
    ELSE ClassTable[c].num_params

\* Operation.grad_method: the class's override, or the inherited property
grad_method(c, passed) ==
    IF ClassTable[c].grad_method = "default"
    THEN (IF num_params(c, passed) = 0 THEN None ELSE "F")
    ELSE ClassTable[c].grad_method

\* the object under construction after Operator.__init__ has stored its fields
NewOp(c, params, w) ==
    [ cls |-> c, name |-> c, wires |-> Wires(w), data |-> params,
      inverse |-> FALSE, grad_recipe |-> ClassTable[c].grad_recipe,
      nparams |-> Len(params), built |-> TRUE ]

\* A constructor's result: its outcome, the object, and whether the object
\* called queue() before the constructor ended.
InitResult(out, op, q) == [out |-> out, op |-> op, queued |-> q]
NoOp == NewOp("TempOperator", <<>>, <<>>)

\* a do_queue that ignores its argument and always queues
Operator_init_always_queues(c, params, w, do_queue) ==
    IF ~w.given THEN InitResult(Raise("ValueError"), NoOp, FALSE)
    ELSE IF Len(params) # num_params(c, Len(params))
    THEN InitResult(Raise("ValueError"), NoOp, FALSE)
    ELSE IF /\ ClassTable[c].num_wires # AllWires
            /\ ClassTable[c].num_wires # AnyWires
            /\ Len(Wires(w.val)) # ClassTable[c].num_wires
    THEN InitResult(Raise("ValueError"), NoOp, FALSE)
    ELSE InitResult(Ok(<<>>), NewOp(c, params, w.val), TRUE)

\* a constructor that skips the wire-count check
Operator_init_no_wire_check(c, params, w, do_queue) ==
    IF ~w.given THEN InitResult(Raise("ValueError"), NoOp, FALSE)
    ELSE IF Len(params) # num_params(c, Len(params))
    THEN InitResult(Raise("ValueError"), NoOp, FALSE)
    ELSE InitResult(Ok(<<>>), NewOp(c, params, w.val), do_queue)

\* Operator.__init__(self, *params, wires=None, do_queue=True, id=None)
Operator_init(c, params, w, do_queue) ==
    IF ~w.given THEN InitResult(Raise("ValueError"), NoOp, FALSE)
    ELSE IF Len(params) # num_params(c, Len(params))
    THEN InitResult(Raise("ValueError"), NoOp, FALSE)
    ELSE IF /\ ClassTable[c].num_wires # AllWires
            /\ ClassTable[c].num_wires # AnyWires
            /\ Len(Wires(w.val)) # ClassTable[c].num_wires
    THEN InitResult(Raise("ValueError"), NoOp, FALSE)
    ELSE InitResult(Ok(<<>>), NewOp(c, params, w.val), do_queue)

\* Operation.__init__: Operator.__init__, then the gradient-recipe check
Operation_init(c, params, w, do_queue) ==
    LET r == Operator_init(c, params, w, do_queue)
        n == num_params(c, Len(params))
    IN  IF ~IsOk(r.out) THEN r
        ELSE IF grad_method(c, Len(params)) = "A"
        THEN IF r.op.grad_recipe.isNone
             THEN [r EXCEPT !.op.grad_recipe = GradList([i \in 1..n |-> NoRecipe])]
             ELSE IF Len(r.op.grad_recipe.val) = n THEN r
             ELSE [r EXCEPT !.out = Raise("AssertionError"), !.op.built = FALSE]
        ELSE IF r.op.grad_recipe.isNone THEN r
             ELSE [r EXCEPT !.out = Raise("AssertionError"), !.op.built = FALSE]

\* Observable.__init__: without the wires keyword the last positional
\* argument is the wires
Observable_init(c, params, w, do_queue) ==
    IF ~w.given
    THEN IF params = <<>>
         THEN InitResult(Raise("ValueError"), NoOp, FALSE)
         ELSE Operator_init(c, SubSeq(params, 1, Len(params) - 1),
                            WiresKw(params[Len(params)]), do_queue)
    ELSE Operator_init(c, params, w, do_queue)

\* cls(*args, wires=w, do_queue=do_queue)
New(c, args, w, do_queue) ==
    IF IsOperation(c) THEN Operation_init(c, args, w, do_queue)
    ELSE IF IsObservable(c) THEN Observable_init(c, args, w, do_queue)
    ELSE Operator_init(c, args, w, do_queue)

----------------------------------------------------------------------------
(* The recording context *)

NoInfo == [inverse |-> "unset"]

\* the position of operator o in the queue, 0 if it is not queued
QueuePos(o) ==
    IF \E i \in 1..Len(queue) : queue[i] = o
    THEN CHOOSE i \in 1..Len(queue) : queue[i] = o
    ELSE 0

InQueue(o) == QueuePos(o) # 0

\* a QuantumTape: the operations queued in it and its trainable parameters
NoTape == [operations |-> <<>>, trainable |-> {}]

NoCall == [act |-> "none", cls |-> "TempOperator", args |-> <<>>, w |-> NoWires,
           dq |-> FALSE, out |-> Ok(<<>>), id |-> 0, qlen |-> 0, rec |-> FALSE,
           tape |-> NoTape]

\* with tape: ... entered
EnterContext ==
    /\ ~recording
    /\ recording' = TRUE
    /\ last' = [NoCall EXCEPT !.act = "enter"]
    /\ UNCHANGED <<ops, queue, info, invLog, calls, em, tensors, listHeap>>

\* the with block left
ExitContext ==
    /\ recording
    /\ recording' = FALSE
    /\ last' = [NoCall EXCEPT !.act = "exit"]
    /\ UNCHANGED <<ops, queue, info, invLog, calls, em, tensors, listHeap>>

\* A constructor call.  An object whose constructor raised is kept only when it
\* had queued itself: the recording context then holds the one reference to it.
Construct(c, args, w, do_queue) ==
    /\ LET r == New(c, args, w, do_queue)
           appended == r.queued /\ recording
           kept == IsOk(r.out) \/ appended
           id == Len(ops) + 1
       IN  /\ calls < MaxOps
           /\ calls' = calls + 1
           /\ ops' = IF kept THEN Append(ops, r.op) ELSE ops
           /\ invLog' = IF kept THEN Append(invLog, <<>>) ELSE invLog
           /\ queue' = IF appended THEN Append(queue, id) ELSE queue
           /\ info' = IF appended THEN Append(info, NoInfo) ELSE info
           /\ last' = [act |-> "construct", cls |-> c, args |-> args, w |-> w,
                       dq |-> do_queue, out |-> r.out,
                       id |-> IF kept THEN id ELSE 0,
                       qlen |-> Len(queue), rec |-> recording, tape |-> NoTape]
    /\ UNCHANGED <<recording, em, tensors, listHeap>>

----------------------------------------------------------------------------
(* Properties and representation methods.  Each takes the operator object. *)

\* Operation.inverse (getter): self._inverse
inverse(op) == op.inverse

\* Operator.name and its override Operation.name
Operator_name(op) == op.name
Operation_name(op) == IF inverse(op) THEN op.name \o ".inv" ELSE op.name
name(op) == IF IsOperation(op.cls) THEN Operation_name(op) ELSE Operator_name(op)

\* Operator.parameters: a copy of data
parameters(op) == op.data

\* round(x, 10) in the model's fixed point: the digit below the precision is dropped
Round10(x) == ((x + 5) \div 10) * 10

\* str(v) and hash(v): injective on the values of the model
str(v) == <<"str", v>>
PyNone == [isNone |-> TRUE, val |-> <<>>]
PyVal(v) == [isNone |-> FALSE, val |-> v]

\* [round(real(d) % period, 10) for d in op.data], elementwise on array parameters
RoundedMod(data, period) ==
    [i \in 1..Len(data) |-> [j \in 1..Len(data[i]) |-> Round10(data[i][j] % period)]]

\* _process_data(op)
process_data(op) ==
    IF name(op) \in {"RX", "RY", "RZ", "PhaseShift", "Rot"}
    THEN str(RoundedMod(op.data, TwoPi))
    ELSE IF name(op) \in {"CRX", "CRY", "CRZ", "CRot"}
    THEN str(RoundedMod(op.data, FourPi))
    ELSE str(op.data)

\* The first definition of the property Operator.hash in the class body.
hash_first(op) == PyVal(<<name(op), op.wires, process_data(op)>>)

\* The second definition of Operator.hash, later in the same class body: it is
\* the one the class ends up with.  It builds data_string and returns nothing.
hash(op) ==
    LET data_string ==
            IF name(op) \in {"RX", "RY", "RZ", "PhaseShift", "Rot"}
            THEN str(RoundedMod(op.data, TwoPi))
            ELSE IF name(op) \in {"CRX", "CRY", "CRZ", "CRot"}
            THEN str(RoundedMod(op.data, FourPi))
            ELSE str(op.data)
    IN  PyNone

\* Operator.compute_matrix / compute_eigvals as the class overrides them
compute_matrix(op) ==
    IF ClassTable[op.cls].compute_matrix.def
    THEN Ok(ClassTable[op.cls].compute_matrix.val)
    ELSE Raise("MatrixUndefinedError")

compute_eigvals(op) ==
    IF ClassTable[op.cls].compute_eigvals.def
    THEN Ok(ClassTable[op.cls].compute_eigvals.val)
    ELSE Raise("EigvalsUndefinedError")

----------------------------------------------------------------------------
(* Tensors of the numeric backend, every axis of dimension 2.  Axes and     *)
(* positions are numbered from 1 here, from 0 in the source.               *)

CAdd(a, b) == <<a[1] + b[1], a[2] + b[2]>>
CMul(a, b) == <<a[1] * b[1] - a[2] * b[2], a[1] * b[2] + a[2] * b[1]>>
CZero == <<0, 0>>
COne == <<1, 0>>

RECURSIVE Pow2(_)
Pow2(k) == IF k = 0 THEN 1 ELSE 2 * Pow2(k - 1)

Idx(k) == [1..k -> {0, 1}]

RECURSIVE FlatIndex(_, _)
\* the row-major (C order) position, from 0, of an index tuple
FlatIndex(b, k) == IF k = 0 THEN 0 ELSE 2 * FlatIndex(b, k - 1) + b[k]

\* the index tuple of length k at row-major position r
Unflat(r, k) == [i \in 1..k |-> (r \div Pow2(k - i)) % 2]

\* qml.math.eye(d): the d x d identity matrix
eye(d) == [i \in 1..d |-> [j \in 1..d |-> IF i = j THEN COne ELSE CZero]]

\* A tensor of rank k with axes of length 2 is its row-major (C order) buffer, a
\* sequence of 2^k entries; the entry at index tuple b is At(T, b).
At(T, b) == T[FlatIndex(b, Len(b)) + 1]

RECURSIVE AsTensor(_, _, _, _)
\* the buffer, from position lo to position hi, of the rank-`rank` tensor whose
\* entries are f[b]
AsTensor(f, rank, lo, hi) ==
    IF lo = hi THEN << f[Unflat(lo - 1, rank)] >>
    ELSE LET mid == (lo + hi) \div 2
         IN  AsTensor(f, rank, lo, mid) \o AsTensor(f, rank, mid + 1, hi)

RECURSIVE Flatten(_, _)
\* the first r rows of the matrix M, one after the other
Flatten(M, r) == IF r = 0 THEN <<>> ELSE Flatten(M, r - 1) \o M[r]

\* qml.math.reshape(M, [2] * k * 2) of a 2^k x 2^k matrix: the same buffer
reshape_to_tensor(M, k) == Flatten(M, Pow2(k))

\* qml.math.reshape(T, (2^k, 2^k)) of a rank-2k tensor: the same buffer, in rows
reshape_to_matrix(T, k) ==
    [r \in 1..Pow2(k) |-> SubSeq(T, (r - 1) * Pow2(k) + 1, r * Pow2(k))]

\* the axes of 1..rank that are not in the sequence ax, ascending
FreeAxes(rank, ax) ==
    SelectSeq([i \in 1..rank |-> i], LAMBDA a : \A j \in 1..Len(ax) : ax[j] # a)

\* the position of x in the sequence s (x occurs in s)
PosIn(s, x) == CHOOSE i \in 1..Len(s) : s[i] = x

RECURSIVE CSum(_, _, _)
\* the sum of the complex values f[c] over the first k index tuples c of length m
CSum(f, m, k) ==
    IF k = 0 THEN CZero ELSE CAdd(f[Unflat(k - 1, m)], CSum(f, m, k - 1))

RECURSIVE AsSeq(_, _)
\* the function f on 1..k as a sequence
AsSeq(f, k) == IF k = 0 THEN <<>> ELSE Append(AsSeq(f, k - 1), f[k])

\* qml.math.tensordot(A, B, axes=(axA, axB)): the axes axA of A are summed
\* against the axes axB of B; the result has A's remaining axes, then B's.
tensordot(A, rankA, B, rankB, axA, axB) ==
    LET fa == FreeAxes(rankA, axA)
        fb == FreeAxes(rankB, axB)
        m == Len(axA)
        \* where each axis of A and of B reads its index: a summed axis in c
        \* (marked by a negative position), a remaining one in idx
        fromA == AsSeq([i \in 1..rankA |->
                          IF \E j \in 1..m : axA[j] = i
                          THEN -PosIn(axA, i) ELSE PosIn(fa, i)], rankA)
        fromB == AsSeq([i \in 1..rankB |->
                          IF \E j \in 1..m : axB[j] = i
                          THEN -PosIn(axB, i) ELSE Len(fa) + PosIn(fb, i)], rankB)
        AIdx(idx, c) == [i \in 1..rankA |->
                            IF fromA[i] < 0 THEN c[-fromA[i]] ELSE idx[fromA[i]]]
        BIdx(idx, c) == [i \in 1..rankB |->
                            IF fromB[i] < 0 THEN c[-fromB[i]] ELSE idx[fromB[i]]]
        rank == Len(fa) + Len(fb)
    IN  AsTensor([idx \in Idx(rank) |->
                    CSum([c \in Idx(m) |-> CMul(At(A, AIdx(idx, c)), At(B, BIdx(idx, c)))],
                         m, Pow2(m))],
                 rank, 1, Pow2(rank))

InsertAt(s, pos, x) == SubSeq(s, 1, pos - 1) \o <<x>> \o SubSeq(s, pos, Len(s))

RECURSIVE InsertSorted(_, _, _, _)
\* numpy's moveaxis: the moved axes are inserted in ascending order of destination
InsertSorted(order, source, destination, todo) ==
    IF todo = {} THEN order
    ELSE LET j == CHOOSE x \in todo : \A y \in todo : destination[x] <= destination[y]
         IN  InsertSorted(InsertAt(order, destination[j], source[j]),
                          source, destination, todo \ {j})

\* qml.math.moveaxis(T, source, destination): the axes source[j] of T become the
\* axes destination[j] of the result; the other axes keep their order.
moveaxis(T, rank, source, destination) ==
    LET order == InsertSorted(FreeAxes(rank, source), source, destination,
                              1..Len(source))
        pos == AsSeq([a \in 1..rank |-> PosIn(order, a)], rank)
    IN  AsTensor([idx \in Idx(rank) |-> At(T, [a \in 1..rank |-> idx[pos[a]]])],
                 rank, 1, Pow2(rank))

\* Wires.indices(wires): the positions in wire_order of the labels of wires
indices(wire_order, wires) == [i \in 1..Len(wires) |-> PosIn(wire_order, wires[i])]

\* a permutation that puts the unused wires first
expand_matrix_unused_first(base_matrix, wires, wire_order) ==
    LET n == Len(wires)
        N == Len(wire_order)
        op_wire_pos == indices(wire_order, wires)
        I == reshape_to_tensor(eye(Pow2(N)), N)
        mat_op_reshaped == reshape_to_tensor(base_matrix, n)
        mat_tensordot == tensordot(mat_op_reshaped, 2 * n, I, 2 * N,
                                   [i \in 1..n |-> n + i], op_wire_pos)
        unused_idxs == FreeAxes(N, op_wire_pos)
        perm == unused_idxs \o op_wire_pos
        mat == moveaxis(mat_tensordot, 2 * N, [i \in 1..N |-> i], perm)
    IN  reshape_to_matrix(mat, N)

\* expand_matrix(base_matrix, wires, wire_order)
expand_matrix(base_matrix, wires, wire_order) ==
    LET n == Len(wires)
        N == Len(wire_order)
        op_wire_pos == indices(wire_order, wires)
        I == reshape_to_tensor(eye(Pow2(N)), N)
        mat_op_reshaped == reshape_to_tensor(base_matrix, n)
        mat_tensordot == tensordot(mat_op_reshaped, 2 * n, I, 2 * N,
                                   [i \in 1..n |-> n + i], op_wire_pos)
        unused_idxs == FreeAxes(N, op_wire_pos)
        perm == op_wire_pos \o unused_idxs
        mat == moveaxis(mat_tensordot, 2 * N, [i \in 1..N |-> i], perm)
    IN  reshape_to_matrix(mat, N)

----------------------------------------------------------------------------
(* Representation methods *)

\* an optional argument: None (the default) or a value
NoArg == [given |-> FALSE, val |-> <<>>]
Arg(v) == [given |-> TRUE, val |-> v]

\* Operator.matrix(wire_order=None)
Operator_matrix(op, wire_order) ==
    LET canonical_matrix == compute_matrix(op)
    IN  IF ~IsOk(canonical_matrix) THEN canonical_matrix
        ELSE IF ~wire_order.given \/ op.wires = Wires(wire_order.val)
        THEN canonical_matrix
        ELSE Ok(expand_matrix(canonical_matrix.val, op.wires, wire_order.val))

\* an Operation.matrix that ignores the inverse flag
Operation_matrix_ignores_inverse(op, wire_order) == Operator_matrix(op, wire_order)

\* Operation.matrix(wire_order=None)
Operation_matrix(op, wire_order) ==
    LET cm == compute_matrix(op)
        canonical_matrix == IF IsOk(cm) /\ inverse(op) THEN Ok(ConjT(cm.val)) ELSE cm
    IN  IF ~IsOk(canonical_matrix) THEN canonical_matrix
        ELSE IF ~wire_order.given \/ op.wires = Wires(wire_order.val)
        THEN canonical_matrix
        ELSE Ok(expand_matrix(canonical_matrix.val, op.wires, wire_order.val))

\* op.matrix(wire_order)
matrix(op, wire_order) ==
    IF IsOperation(op.cls) THEN Operation_matrix(op, wire_order)
    ELSE Operator_matrix(op, wire_order)

\* an eigvals that does not fall back on the matrix
Operator_eigvals_no_fallback(op) ==
    LET ce == compute_eigvals(op)
    IN  IF IsOk(ce) THEN ce
        ELSE RaiseFrom("EigvalsUndefinedError", "MatrixUndefinedError")

\* Operator.eigvals()
Operator_eigvals(op) ==
    LET ce == compute_eigvals(op)
    IN  IF ~Raises(ce, "EigvalsUndefinedError") THEN ce
        ELSE LET m == matrix(op, NoArg)
             IN  IF IsOk(m) THEN Ok(linalg_eigvals(m.val))
                 ELSE IF Raises(m, "MatrixUndefinedError")
                 THEN RaiseFrom("EigvalsUndefinedError", "MatrixUndefinedError")
                 ELSE m

\* Operation.eigvals()
Operation_eigvals(op) ==
    LET op_eigvals == Operator_eigvals(op)
    IN  IF IsOk(op_eigvals) /\ inverse(op) THEN Ok(ConjVec(op_eigvals.val))
        ELSE op_eigvals

\* op.eigvals()
eigvals(op) ==
    IF IsOperation(op.cls) THEN Operation_eigvals(op) ELSE Operator_eigvals(op)

\* Operator.sparse_matrix(wire_order=None)
sparse_matrix(op, wire_order) ==
    IF wire_order.given THEN Raise("NotImplementedError")
    ELSE Raise("SparseMatrixUndefinedError")

\* Operator.terms(), diagonalizing_gates(), generator(): none of the model's
\* classes overrides the static computation they call
terms(op) == Raise("TermsUndefinedError")

\* Operator.compute_decomposition as the class overrides it: CustomOp decomposes
\* into a CRX on its wires followed by one RX on its first wire per parameter
DefinesDecomposition(c) == c = "CustomOp"

compute_decomposition(op) ==
    IF DefinesDecomposition(op.cls)
    THEN LET gates == <<[cls |-> "CRX", args |-> << <<Pi>> >>, wires |-> op.wires]>> \o
                      [i \in 1..Len(op.data) |->
                          [cls |-> "RX", args |-> << op.data[i] >>, wires |-> << op.wires[1] >>]]
         IN  Ok([i \in 1..Len(gates) |->
                    Operation_init(gates[i].cls, gates[i].args, WiresKw(gates[i].wires), TRUE).op])
    ELSE Raise("DecompositionUndefinedError")

\* Operator.decomposition()
decomposition(op) == compute_decomposition(op)
diagonalizing_gates(op) == Raise("DiagGatesUndefinedError")
generator(op) == Raise("GeneratorUndefinedError")

\* Operation.adjoint(do_queue=False)
Operation_adjoint(op) == Raise("AdjointUndefinedError")

Methods == {"matrix", "sparse_matrix", "eigvals", "terms", "decomposition",
            "diagonalizing_gates", "generator", "adjoint"}

\* hasattr(op, m): Operator defines every representation method but adjoint,
\* which only Operation defines
hasattr(op, m) == m # "adjoint" \/ IsOperation(op.cls)

\* getattr(op, m)()
CallMethod(op, m) ==
    IF ~hasattr(op, m) THEN Raise("AttributeError")
    ELSE CASE m = "matrix" -> matrix(op, NoArg)
           [] m = "sparse_matrix" -> sparse_matrix(op, NoArg)
           [] m = "eigvals" -> eigvals(op)
           [] m = "terms" -> terms(op)
           [] m = "decomposition" -> decomposition(op)
           [] m = "diagonalizing_gates" -> diagonalizing_gates(op)
           [] m = "generator" -> generator(op)
           [] m = "adjoint" -> Operation_adjoint(op)

----------------------------------------------------------------------------
(* Labels *)

RECURSIVE Pow10(_)
Pow10(k) == IF k = 0 THEN 1 ELSE 10 * Pow10(k - 1)

\* the precision of the model's fixed point, in decimal digits
Digits == 10 + 1

\* format(x, f".{decimals}f"): x rounded to that many digits
Format(x, decimals) ==
    IF decimals >= Digits THEN x
    ELSE LET q == Pow10(Digits - decimals) IN ((x + q \div 2) \div q) * q

\* Operator.label(decimals=None, base_label=None): the label's text and the
\* formatted parameters appended to it
Operator_label(op, decimals, base_label) ==
    LET op_label == IF base_label.given THEN base_label.val ELSE op.cls
        params == parameters(op)
    IN  IF ~decimals.given \/ num_params(op.cls, op.nparams) = 0
        THEN [text |-> op_label, params |-> <<>>]
        ELSE IF Len(params[1]) # 1
        THEN [text |-> op_label, params |-> <<>>]
        ELSE [text |-> op_label,
              params |-> [i \in 1..Len(params) |->
                            [j \in 1..Len(params[i]) |-> Format(params[i][j], decimals.val)]]]

\* Operation.label: the marker of the inverse is appended to the base label
Operation_label(op, decimals, base_label) ==
    IF inverse(op)
    THEN Operator_label(op, decimals,
            Arg((IF base_label.given THEN base_label.val ELSE op.cls) \o "^-1"))
    ELSE Operator_label(op, decimals, base_label)

label(op, decimals, base_label) ==
    IF IsOperation(op.cls) THEN Operation_label(op, decimals, base_label)
    ELSE Operator_label(op, decimals, base_label)

----------------------------------------------------------------------------
(* Gradient recipes *)

\* 2 sin(shift) for the shifts of the model, in units of pi/6
TwoSin(shift) == CASE shift = 1 -> 1 [] shift = 3 -> 2 [] shift = 5 -> 1

Shifts == {1, 3}

\* a get_parameter_shift that returns the default recipe whatever the entry is
get_parameter_shift_default_only(op, idx, shift) ==
    IF op.grad_recipe.isNone THEN Raise("TypeError")
    ELSE IF idx + 1 > Len(op.grad_recipe.val) THEN Raise("IndexError")
    ELSE LET multiplier == 2 \div TwoSin(shift)
         IN  Ok(<< <<multiplier, 1, shift>>, <<-multiplier, 1, -shift>> >>)

\* Operation.get_parameter_shift(idx, shift): coefficients in halves
get_parameter_shift(op, idx, shift) ==
    IF op.grad_recipe.isNone THEN Raise("TypeError")
    ELSE IF idx + 1 > Len(op.grad_recipe.val) THEN Raise("IndexError")
    ELSE LET recipe == op.grad_recipe.val[idx + 1]
             multiplier == 2 \div TwoSin(shift)
             a == 1
             default_param_shift == << <<multiplier, a, shift>>,
                                       <<-multiplier, a, -shift>> >>
         IN  Ok(IF recipe.isNone THEN default_param_shift ELSE recipe.terms)

----------------------------------------------------------------------------
(* The inversion toggle *)

\* QueuingContext.get_info(op).get("inverse", False)
current_inv(o) == info[QueuePos(o)].inverse = "True"

\* Operation.inv().  While a recording context is active the toggle is stored
\* as an annotation of the operator's queue entry (an operator that is not in
\* the queue has no entry to annotate: QueuingError); otherwise it is stored in
\* the operator.
Inv(o) ==
    /\ o \in 1..Len(ops)
    /\ IsOperation(ops[o].cls)
    /\ ops[o].built
    /\ Len(invLog[o]) < MaxInv
    /\ IF recording
       THEN IF InQueue(o)
            THEN /\ info' = [info EXCEPT ![QueuePos(o)].inverse =
                                IF current_inv(o) THEN "False" ELSE "True"]
                 /\ invLog' = [invLog EXCEPT ![o] = Append(@, "in")]
                 /\ last' = [NoCall EXCEPT !.act = "inv", !.id = o, !.rec = TRUE]
                 /\ UNCHANGED ops
            ELSE /\ last' = [NoCall EXCEPT !.act = "inv", !.id = o, !.rec = TRUE,
                                           !.out = Raise("QueuingError")]
                 /\ UNCHANGED <<ops, info, invLog>>
       ELSE /\ ops' = [ops EXCEPT ![o].inverse = ~ops[o].inverse]
            /\ invLog' = [invLog EXCEPT ![o] = Append(@, "out")]
            /\ last' = [NoCall EXCEPT !.act = "inv", !.id = o]
            /\ UNCHANGED info
    /\ UNCHANGED <<recording, queue, calls, em, tensors, listHeap>>

----------------------------------------------------------------------------
(* Expansion into a tape *)

RECURSIVE NumTapeParams(_)
\* the number of parameters of the operations of a tape
NumTapeParams(operations) ==
    IF operations = <<>> THEN 0
    ELSE Len(operations[1].data) + NumTapeParams(Tail(operations))

\* a tape that has recorded the operations: all their parameters are trainable
NewTape(operations) ==
    [operations |-> operations, trainable |-> 0..(NumTapeParams(operations) - 1)]

\* QuantumTape.inv(): the operations in reverse order, each one inverted
tape_inv(tape) ==
    [tape EXCEPT !.operations =
        [i \in 1..Len(tape.operations) |->
            [tape.operations[Len(tape.operations) + 1 - i] EXCEPT !.inverse = ~@]]]

\* what expand() leaves: its outcome, the tape, and the objects it appended to
\* the context that was active when it was called
ExpandResult(out, tape, enclosing) == [out |-> out, tape |-> tape, enclosing |-> enclosing]

\* an expand that calls decomposition() before the tape is made the active context
expand_outside_tape(op) ==
    LET dec == decomposition(op)
    IN  IF ~IsOk(dec) THEN ExpandResult(dec, NoTape, <<>>)
        ELSE LET tape == NewTape(<<>>)
                 untrained == IF op.data = <<>> THEN [tape EXCEPT !.trainable = {}]
                              ELSE tape
             IN  ExpandResult(Ok(<<>>),
                              IF inverse(op) THEN tape_inv(untrained) ELSE untrained,
                              dec.val)

\* Operation.expand(): the tape is created with do_queue=False and is the
\* active context while decomposition() constructs the operators
expand(op) ==
    LET dec == decomposition(op)
    IN  IF ~IsOk(dec) THEN ExpandResult(dec, NoTape, <<>>)
        ELSE LET tape == NewTape(dec.val)
                 untrained == IF op.data = <<>> THEN [tape EXCEPT !.trainable = {}]
                              ELSE tape
             IN  ExpandResult(Ok(<<>>),
                              IF inverse(op) THEN tape_inv(untrained) ELSE untrained,
                              <<>>)

\* the call ops[o].expand().  Objects appended to the enclosing context are
\* not operators of the heap: they are queued under the id 0.
Expand(o) ==
    /\ o \in 1..Len(ops)
    /\ IsOperation(ops[o].cls)
    /\ ops[o].built
    /\ LET r == expand(ops[o])
           n == IF recording THEN Len(r.enclosing) ELSE 0
       IN  /\ queue' = queue \o [i \in 1..n |-> 0]
           /\ info' = info \o [i \in 1..n |-> NoInfo]
           /\ last' = [NoCall EXCEPT !.act = "expand", !.id = o, !.rec = recording,
                                     !.out = r.out, !.tape = r.tape,
                                     !.qlen = Len(queue)]
    /\ UNCHANGED <<ops, recording, invLog, calls, em, tensors, listHeap>>

----------------------------------------------------------------------------
(* The specification of the operator life cycle *)

NoExpand == [phase |-> "idle", base |-> <<>>, wires |-> <<>>, wire_order |-> <<>>,
             out |-> <<>>]

Init ==
    /\ ops = <<>>
    /\ recording = FALSE
    /\ queue = <<>>
    /\ info = <<>>
    /\ last = NoCall
    /\ invLog = <<>>
    /\ calls = 0
    /\ em = NoExpand
    /\ tensors = <<>>
    /\ listHeap = <<>>

\* a well-formed constructor call of class c: as many parameters as the class
\* takes (one where that is free) and as many wires as it acts on
CanonArgs(c) ==
    IF num_params(c, 1) = 0 THEN <<>> ELSE [i \in 1..num_params(c, 1) |-> <<Pi>>]

\* ... or no parameter where the number is free
CanonArgSets(c) ==
    {CanonArgs(c)} \cup (IF ClassTable[c].num_params = DefaultParams THEN {<<>>} ELSE {})
CanonWires(c) ==
    IF ClassTable[c].num_wires = 1 THEN WiresKw(<<0>>) ELSE WiresKw(<<0, 1>>)

Next ==
    \/ EnterContext
    \/ ExitContext
    \/ \E c \in Classes, do_queue \in BOOLEAN :
          \E args \in CanonArgSets(c) : Construct(c, args, CanonWires(c), do_queue)
    \/ \E o \in 1..MaxOps : Inv(o)
    \/ \E o \in 1..MaxOps : Expand(o)

Spec == Init /\ [][Next]_vars

----------------------------------------------------------------------------
(* The specification of construction: every constructor call, well-formed  *)
(* or not                                                                  *)

NextConstruct ==
    \/ EnterContext
    \/ ExitContext
    \/ \E c \in Classes, args \in ArgSeqs,
          w \in {NoWires} \cup {WiresKw(v) : v \in WireVals}, do_queue \in BOOLEAN :
          Construct(c, args, w, do_queue)

SpecConstruct == Init /\ [][NextConstruct]_vars

----------------------------------------------------------------------------
(* The specification of expand_matrix: one call on each input of the       *)
(* bounded input space                                                     *)

Labels == 0..(MaxOrder - 1)

\* the sequences of distinct labels of length 1..MaxOrder
WireSeqs ==
    { s \in UNION { [1..n -> Labels] : n \in 1..MaxOrder } :
        \A i, j \in 1..Len(s) : i # j => s[i] # s[j] }

\* the base matrix on n wires: complex entries, pairwise different, whose real
\* parts are those of the docstring's matrix (1, 2, 3, ... row by row)
BaseMatrix(n) ==
    [r \in 1..Pow2(n) |-> [c \in 1..Pow2(n) |-> <<Pow2(n) * (r - 1) + c, r - c>>]]

\* the wire sequences whose labels all occur in wire_order wo
WiresWithin(wo) ==
    { x \in WireSeqs : /\ Len(x) <= MaxOpWires
                       /\ \A i \in 1..Len(x) : \E j \in 1..Len(wo) : wo[j] = x[i] }

ExpandInputs ==
    UNION { { [phase |-> "in", base |-> BaseMatrix(Len(w)), wires |-> w,
               wire_order |-> wo, out |-> <<>>] : w \in WiresWithin(wo) } :
            wo \in WireSeqs }

InitExpand ==
    /\ ops = <<>>
    /\ recording = FALSE
    /\ queue = <<>>
    /\ info = <<>>
    /\ last = NoCall
    /\ invLog = <<>>
    /\ calls = 0
    /\ em \in ExpandInputs
    /\ tensors = <<>>
    /\ listHeap = <<>>

\* the call expand_matrix(base_matrix, wires, wire_order)
ExpandMatrixCall ==
    /\ em.phase = "in"
    /\ em' = [em EXCEPT !.phase = "out",
                        !.out = expand_matrix(em.base, em.wires, em.wire_order)]
    /\ UNCHANGED <<ops, recording, queue, info, last, invLog, calls, tensors, listHeap>>

NextExpand == ExpandMatrixCall

SpecExpand == InitExpand /\ [][NextExpand]_vars

----------------------------------------------------------------------------
(* Continuous-variable operators: heisenberg_expand.                       *)
(*                                                                         *)
(* An array is its number of axes and its value: a sequence of numbers, or *)
(* a sequence of rows.                                                     *)

NdArray(ndim, val) == [ndim |-> ndim, val |-> val]

\* the array of length d with ndim axes (1, 2 or more); the entries of an
\* array of 1 or 2 axes are the numbers 1, 2, 3, ... row by row
HeisenbergArray(ndim, d) ==
    IF ndim = 1 THEN NdArray(ndim, [i \in 1..d |-> i])
    ELSE IF ndim = 2 THEN NdArray(ndim, [r \in 1..d |-> [c \in 1..d |-> d * (r - 1) + c]])
    ELSE NdArray(ndim, [r \in 1..d |-> [c \in 1..d |-> <<0>>]])

\* Wires.contains_wires
contains_wires(wire_order, wires) ==
    \A i \in 1..Len(wires) : \E j \in 1..Len(wire_order) : wire_order[j] = wires[i]

\* the index in U of index i of W: 1 for the identity, the (x, p) pair of the
\* k-th wire of the operator for the pair of its position in wire_order, 0
\* where W takes nothing from U
local_index(wire_indices, i) ==
    IF i = 1 THEN 1
    ELSE IF \E k \in 1..Len(wire_indices) : i \in {2 * wire_indices[k], 2 * wire_indices[k] + 1}
         THEN LET k == CHOOSE k \in 1..Len(wire_indices) :
                          i \in {2 * wire_indices[k], 2 * wire_indices[k] + 1}
              IN  2 * k + (i - 2 * wire_indices[k])
         ELSE 0

\* CV.heisenberg_expand(U, wire_order) of an operator self
heisenberg_expand(self, U, wire_order) ==
    LET U_dim == Len(U.val)
        nw == Len(self.wires)
    IN  IF U.ndim > 2 THEN Raise("ValueError")
        ELSE IF U_dim # 1 + 2 * nw THEN Raise("ValueError")
        ELSE IF Len(wire_order) = 0 \/ Len(self.wires) = Len(wire_order) THEN Ok(U.val)
        ELSE IF ~contains_wires(wire_order, self.wires) THEN Raise("ValueError")
        ELSE LET wire_indices == indices(wire_order, self.wires)
                 dim == 1 + Len(wire_order) * 2
                 loc == [i \in 1..dim |-> local_index(wire_indices, i)]
             IN  IF U.ndim = 1
                 THEN Ok([i \in 1..dim |-> IF loc[i] # 0 THEN U.val[loc[i]] ELSE 0])
                 ELSE Ok([r \in 1..dim |-> [c \in 1..dim |->
                            IF loc[r] # 0 /\ loc[c] # 0 THEN U.val[loc[r]][loc[c]]
                            ELSE IF ~self.observable /\ r = c THEN 1 ELSE 0]])

CVCall(act, self, U, wire_order, out) ==
    [act |-> act, self |-> self, U |-> U, wire_order |-> wire_order, out |-> out]
NoCVCall == CVCall("none", [wires |-> <<>>, observable |-> FALSE], NdArray(1, <<>>), <<>>, Ok(<<>>))

InitHeisenberg ==
    /\ ops = <<>>
    /\ recording = FALSE
    /\ queue = <<>>
    /\ info = <<>>
    /\ last = NoCVCall
    /\ invLog = <<>>
    /\ calls = 0
    /\ em = NoExpand
    /\ tensors = <<>>
    /\ listHeap = <<>>

\* the call self.heisenberg_expand(U, wire_order)
HeisenbergExpand(self, U, wire_order) ==
    /\ last.act = "none"
    /\ last' = CVCall("heisenberg_expand", self, U, wire_order,
                      heisenberg_expand(self, U, wire_order))
    /\ UNCHANGED <<ops, recording, queue, info, invLog, calls, em, tensors, listHeap>>

\* a CV operation or observable on at most MaxOpWires wires, an array of
\* length 1 + 2 n for n up to MaxOrder, a wire_order of at most MaxOrder wires
NextHeisenberg ==
    /\ last.act = "none"
    /\ \E wires \in { w \in WireSeqs : Len(w) <= MaxOpWires }, observable \in BOOLEAN,
          n \in 1..MaxOrder, ndim \in {1, 2, 3}, wire_order \in WireSeqs \cup {<<>>} :
           HeisenbergExpand([wires |-> wires, observable |-> observable],
                            HeisenbergArray(ndim, 1 + 2 * n), wire_order)

SpecHeisenberg == InitHeisenberg /\ [][NextHeisenberg]_vars

----------------------------------------------------------------------------
(* Tensor products of observables.                                         *)
(*                                                                         *)
(* An operand is an observable, an operation that is no observable, or a   *)
(* Tensor of the heap named by its index.  A parameter of an observable is *)
(* an array <<shape, buffer>>.  The calls are made outside a               *)
(* recording context, where QueuingContext.append and update_info do       *)
(* nothing.                                                                *)

Operand(kind, c, w, params, ref) ==
    [kind |-> kind, name |-> c, wires |-> Wires(w), data |-> params,
     return_type |-> None, ref |-> ref]

Array(shape, buf) == <<shape, buf>>

\* the 4 x 4 array diag(1, 2, 3, 4)
HermitianMatrix ==
    Array(<<4, 4>>, [i \in 1..16 |-> IF (i - 1) % 5 = 0 THEN ((i - 1) \div 5) + 1 ELSE 0])

PauliX0 == Operand("Observable", "PauliX", <<0>>, <<>>, 0)
Identity2 == Operand("Observable", "Identity", <<2>>, <<>>, 0)
Hermitian01 == Operand("Observable", "Hermitian", <<0, 1>>, <<HermitianMatrix>>, 0)
RX0 == Operand("Operation", "RX", <<0>>, << Array(<<>>, <<Pi>>) >>, 0)

TensorRef(t) == Operand("Tensor", "Tensor", <<>>, <<>>, t)

Observables == {PauliX0, Identity2, Hermitian01}

\* isinstance(v, Tensor), isinstance(v, Observable): Tensor derives from Observable
IsTensor(v) == v.kind = "Tensor"
IsObservableValue(v) == v.kind \in {"Observable", "Tensor"}

\* the value of _eigvals_cache: None, or an array
NoCache == [isNone |-> TRUE, val |-> <<>>]
Cached(v) == [isNone |-> FALSE, val |-> v]

\* a Tensor object
NewTensor(obs) == [obs |-> obs, return_type |-> None, eigvals_cache |-> NoCache]

\* what a call leaves: its outcome and the heap of Tensors
TensorResult(out, heap) == [out |-> out, heap |-> heap]

RECURSIVE Tensor_queue_nested(_, _, _)
\* a queue(init=True) that appends a Tensor argument as one constituent
Tensor_queue_nested(heap, args, obs) ==
    IF args = <<>> THEN Ok(obs)
    ELSE IF IsObservableValue(Head(args))
         THEN Tensor_queue_nested(heap, Tail(args), Append(obs, Head(args)))
         ELSE Raise("ValueError")

RECURSIVE Tensor_queue(_, _, _)
\* Tensor.queue(init=True): the constituents of the arguments, left to right
Tensor_queue(heap, args, obs) ==
    IF args = <<>> THEN Ok(obs)
    ELSE IF IsTensor(Head(args))
         THEN Tensor_queue(heap, Tail(args), obs \o heap[Head(args).ref].obs)
         ELSE IF IsObservableValue(Head(args))
              THEN Tensor_queue(heap, Tail(args), Append(obs, Head(args)))
              ELSE Raise("ValueError")

\* Tensor(*args): a new Tensor in the heap, or the error of queue()
Tensor_init(heap, args) ==
    LET q == Tensor_queue(heap, args, <<>>)
    IN  IF IsOk(q)
        THEN TensorResult(Ok(TensorRef(Len(heap) + 1)), Append(heap, NewTensor(q.val)))
        ELSE TensorResult(q, heap)

\* a product that appends a Tensor operand as one constituent
Tensor_matmul_append(heap, t, other) ==
    IF IsObservableValue(other)
    THEN TensorResult(Ok(TensorRef(t)), [heap EXCEPT ![t].obs = Append(@, other)])
    ELSE TensorResult(Raise("ValueError"), heap)

\* Tensor.__matmul__ (and __imatmul__): self.obs is extended in place and
\* self is returned
Tensor_matmul(heap, t, other) ==
    IF IsTensor(other)
    THEN TensorResult(Ok(TensorRef(t)),
                      [heap EXCEPT ![t].obs = @ \o heap[other.ref].obs])
    ELSE IF IsObservableValue(other)
         THEN TensorResult(Ok(TensorRef(t)), [heap EXCEPT ![t].obs = Append(@, other)])
         ELSE TensorResult(Raise("ValueError"), heap)

\* Tensor.__rmatmul__: other is put in front of self.obs in place
Tensor_rmatmul(heap, t, other) ==
    IF IsObservableValue(other)
    THEN TensorResult(Ok(TensorRef(t)), [heap EXCEPT ![t].obs = <<other>> \o @])
    ELSE TensorResult(Raise("ValueError"), heap)

\* Observable.__matmul__
Observable_matmul(heap, self, other) ==
    IF IsTensor(other) THEN Tensor_rmatmul(heap, other.ref, self)
    ELSE IF IsObservableValue(other) THEN Tensor_init(heap, <<self, other>>)
         ELSE TensorResult(Raise("ValueError"), heap)

\* x @ y for an observable or a Tensor x
matmul(heap, x, y) ==
    IF IsTensor(x) THEN Tensor_matmul(heap, x.ref, y) ELSE Observable_matmul(heap, x, y)

\* Wires.all_wires: the labels of the wire lists, each once, in first-seen order
RECURSIVE all_wires(_, _)
all_wires(list_of_wires, seen) ==
    IF list_of_wires = <<>> THEN seen
    ELSE LET w == Head(list_of_wires)
         IN  IF w = <<>> THEN all_wires(Tail(list_of_wires), seen)
             ELSE all_wires(<<Tail(w)>> \o Tail(list_of_wires),
                            IF \E i \in 1..Len(seen) : seen[i] = Head(w) THEN seen
                            ELSE Append(seen, Head(w)))

RECURSIVE Concat(_)
\* sum(lists, [])
Concat(lists) == IF lists = <<>> THEN <<>> ELSE Head(lists) \o Concat(Tail(lists))

\* wires that keep a label once per constituent using it
Tensor_wires_repeated(T) == Concat([i \in 1..Len(T.obs) |-> T.obs[i].wires])

\* Tensor.wires
Tensor_wires(T) == all_wires([i \in 1..Len(T.obs) |-> T.obs[i].wires], <<>>)

\* Tensor.data, Tensor.num_params, Tensor.parameters
Tensor_data(T) == Concat([i \in 1..Len(T.obs) |-> T.obs[i].data])
Tensor_num_params(T) == Len(Tensor_data(T))
Tensor_parameters(T) == [i \in 1..Len(T.obs) |-> parameters(T.obs[i])]

\* Tensor.non_identity_obs
non_identity_obs(T) == SelectSeq(T.obs, LAMBDA o : o.name # "Identity")

\* Tensor.check_wires_partial_overlap: two constituents share wires that are
\* not all the wires of both
shared_wires(w1, w2) == SelectSeq(w1, LAMBDA l : \E j \in 1..Len(w2) : w2[j] = l)

check_wires_partial_overlap(T) ==
    \E i, j \in 1..Len(T.obs) :
        /\ i < j
        /\ LET shared == shared_wires(T.obs[i].wires, T.obs[j].wires)
           IN  shared # <<>> /\ (shared # T.obs[i].wires \/ shared # T.obs[j].wires)

\* a grouping that leaves every constituent in a group of its own
groupby_none(obs, groups) == groups \o [i \in 1..Len(obs) |-> <<obs[i]>>]

RECURSIVE groupby(_, _)
\* itertools.groupby(self.obs, key=wire labels): runs of consecutive
\* constituents with equal wires
groupby(obs, groups) ==
    IF obs = <<>> THEN groups
    ELSE IF groups # <<>> /\ groups[Len(groups)][1].wires = Head(obs).wires
         THEN groupby(Tail(obs), [groups EXCEPT ![Len(groups)] = Append(@, Head(obs))])
         ELSE groupby(Tail(obs), Append(groups, <<Head(obs)>>))

RECURSIVE Prod(_)
\* np.prod
Prod(seq) == IF seq = <<>> THEN 1 ELSE Head(seq) * Prod(Tail(seq))

\* what matrix() leaves: its outcome and the warning it issued
MatrixResult(out, warning) == [out |-> out, warning |-> warning]

\* Tensor.matrix(wire_order): one block per group, the product (multi_dot) of
\* the group's matrices, written as the names of its factors; the result is
\* the Kronecker product of the blocks, of size mat_size
Tensor_matrix(T, wire_order) ==
    LET groups == groupby(T.obs, <<>>)
        U_list == [g \in 1..Len(groups) |->
                     [factors |-> [k \in 1..Len(groups[g]) |-> groups[g][k].name],
                      size |-> Pow2(Len(groups[g][1].wires))]]
        mat_size == Prod([g \in 1..Len(U_list) |-> U_list[g].size])
        wire_size == Pow2(Len(Tensor_wires(T)))
        warning == IF mat_size = wire_size THEN "none"
                   ELSE IF check_wires_partial_overlap(T) THEN "partial overlap"
                        ELSE "size"
    IN  IF wire_order.given THEN MatrixResult(Raise("NotImplementedError"), "none")
        ELSE IF U_list = <<>> THEN MatrixResult(Raise("TypeError"), warning)
        ELSE MatrixResult(Ok([kron |-> U_list, size |-> mat_size]), warning)

\* wires.index(w): the position of the single label of w in wires, 0 if absent
index(wires, w) ==
    IF \E i \in 1..Len(wires) : wires[i] = w[1]
    THEN CHOOSE i \in 1..Len(wires) : wires[i] = w[1]
    ELSE 0

RECURSIVE sparse_ops(_, _, _)
\* the loop of sparse_matrix over self.obs
sparse_ops(obs, wires, list_of_sparse_ops) ==
    IF obs = <<>> THEN Ok(list_of_sparse_ops)
    ELSE IF Len(Head(obs).wires) > 1 THEN Raise("ValueError")
         ELSE IF Head(obs).wires = <<>> \/ index(wires, Head(obs).wires) = 0
              THEN Raise("WireError")
              ELSE sparse_ops(Tail(obs), wires,
                              [list_of_sparse_ops EXCEPT
                                  ![index(wires, Head(obs).wires)] = Head(obs).name])

\* Tensor.sparse_matrix(wires): the Kronecker product of one factor per wire
\* of the target ordering, written as the names of the factors
Tensor_sparse_matrix(T, w) ==
    LET wires == IF w.given THEN Wires(w.val) ELSE Tensor_wires(T)
        r == sparse_ops(T.obs, wires, [i \in 1..Len(wires) |-> "eye"])
    IN  IF ~IsOk(r) THEN r
        ELSE IF r.val = <<>> THEN Raise("TypeError")
        ELSE r

\* a prune() that leaves the result's return_type as it is
Tensor_prune_plain(heap, t) ==
    LET T == heap[t]
        nio == non_identity_obs(T)
    IN  IF Len(nio) = 0
        THEN IF Tensor_wires(T) = <<>> THEN TensorResult(Raise("IndexError"), heap)
             ELSE TensorResult(
                    Ok(Operand("Observable", "Identity", <<Tensor_wires(T)[1]>>, <<>>, 0)),
                    heap)
        ELSE IF Len(nio) = 1 THEN TensorResult(Ok(nio[1]), heap)
             ELSE Tensor_init(heap, nio)

\* Tensor.prune(): the result carries self.return_type; a sole non-identity
\* constituent is returned itself, with its return_type set
Tensor_prune(heap, t) ==
    LET T == heap[t]
        nio == non_identity_obs(T)
    IN  IF Len(nio) = 0
        THEN IF Tensor_wires(T) = <<>> THEN TensorResult(Raise("IndexError"), heap)
             ELSE TensorResult(
                    Ok([Operand("Observable", "Identity", <<Tensor_wires(T)[1]>>, <<>>, 0)
                           EXCEPT !.return_type = T.return_type]),
                    heap)
        ELSE IF Len(nio) = 1
             THEN LET i == CHOOSE i \in 1..Len(T.obs) :
                              /\ T.obs[i].name # "Identity"
                              /\ \A j \in 1..(i - 1) : T.obs[j].name = "Identity"
                  IN  TensorResult(Ok([nio[1] EXCEPT !.return_type = T.return_type]),
                                   [heap EXCEPT ![t].obs[i].return_type = T.return_type])
             ELSE LET r == Tensor_init(heap, nio)
                  IN  TensorResult(r.out,
                                   [r.heap EXCEPT ![Len(r.heap)].return_type = T.return_type])

\* param.tobytes(): the buffer of the array, without its shape
tobytes(param) == param[2]

\* the triple of a constituent
obs_triple(ob) ==
    <<ob.name, ob.wires, [i \in 1..Len(parameters(ob)) |-> tobytes(parameters(ob)[i])]>>

\* an _obs_data that keeps the Identity constituents
obs_data_with_identity(heap, self) ==
    LET obs == Tensor_queue(heap, <<self>>, <<>>).val
    IN  { obs_triple(obs[i]) : i \in 1..Len(obs) }

\* Observable._obs_data(): the triples of the non-identity constituents of Tensor(self)
obs_data(heap, self) ==
    LET obs == non_identity_obs(NewTensor(Tensor_queue(heap, <<self>>, <<>>).val))
    IN  { obs_triple(obs[i]) : i \in 1..Len(obs) }

\* Observable.compare(other)
compare(heap, self, other) ==
    IF IsObservableValue(other) THEN Ok(obs_data(heap, other) = obs_data(heap, self))
    ELSE Raise("ValueError")

\* the operands at hand: the observables, an operation and the Tensors of the heap
Operands(heap) == Observables \cup {RX0} \cup { TensorRef(t) : t \in 1..Len(heap) }

\* the argument lists of a Tensor(...) call
ArgLists(heap) ==
    {<<>>} \cup { <<a>> : a \in Operands(heap) }
           \cup { <<a, b>> : a \in Operands(heap), b \in Operands(heap) }

TensorCall(act, args, out) == [act |-> act, args |-> args, out |-> out]
NoTensorCall == TensorCall("none", <<>>, Ok(<<>>))

\* the call Tensor(*args)
TensorNew(args) ==
    /\ calls < MaxTensorCalls
    /\ LET r == Tensor_init(tensors, args)
       IN  /\ tensors' = r.heap
           /\ last' = TensorCall("Tensor", args, r.out)
    /\ calls' = calls + 1
    /\ UNCHANGED <<ops, recording, queue, info, invLog, em, listHeap>>

\* the expression x @ y, or the statement x @= y on a Tensor x
Matmul(x, y, inplace) ==
    /\ calls < MaxTensorCalls
    /\ IsObservableValue(x)
    /\ inplace => IsTensor(x)
    /\ LET r == matmul(tensors, x, y)
       IN  /\ tensors' = r.heap
           /\ last' = TensorCall(IF inplace THEN "imatmul" ELSE "matmul", <<x, y>>, r.out)
    /\ calls' = calls + 1
    /\ UNCHANGED <<ops, recording, queue, info, invLog, em, listHeap>>

\* a measurement function such as expval applied to Tensor t
Measure(t) ==
    /\ t \in 1..Len(tensors)
    /\ tensors[t].return_type = None
    /\ tensors' = [tensors EXCEPT ![t].return_type = "Expectation"]
    /\ last' = TensorCall("measure", <<TensorRef(t)>>, Ok(TensorRef(t)))
    /\ UNCHANGED <<ops, recording, queue, info, invLog, calls, em, listHeap>>

\* the call tensors[t].prune()
Prune(t) ==
    /\ calls < MaxTensorCalls
    /\ t \in 1..Len(tensors)
    /\ LET r == Tensor_prune(tensors, t)
       IN  /\ tensors' = r.heap
           /\ last' = TensorCall("prune", <<TensorRef(t)>>, r.out)
    /\ calls' = calls + 1
    /\ UNCHANGED <<ops, recording, queue, info, invLog, em, listHeap>>

InitTensor ==
    /\ ops = <<>>
    /\ recording = FALSE
    /\ queue = <<>>
    /\ info = <<>>
    /\ last = NoTensorCall
    /\ invLog = <<>>
    /\ calls = 0
    /\ em = NoExpand
    /\ tensors = <<>>
    /\ listHeap = <<>>

NextTensor ==
    \/ \E args \in ArgLists(tensors) : TensorNew(args)
    \/ \E x, y \in Operands(tensors), inplace \in BOOLEAN : Matmul(x, y, inplace)
    \/ \E t \in 1..MaxTensorCalls : Measure(t)
    \/ \E t \in 1..MaxTensorCalls : Prune(t)

SpecTensor == InitTensor /\ [][NextTensor]_vars

\* the lists of at most MaxFactors observables
FactorLists == UNION { [1..n -> Observables] : n \in 0..MaxFactors }

\* two Tensors, each constructed from a list of observables
InitCompare ==
    /\ ops = <<>>
    /\ recording = FALSE
    /\ queue = <<>>
    /\ info = <<>>
    /\ last = NoTensorCall
    /\ invLog = <<>>
    /\ calls = 0
    /\ em = NoExpand
    /\ listHeap = <<>>
    /\ \E a, b \in FactorLists :
          tensors = Tensor_init(Tensor_init(<<>>, a).heap, b).heap

\* the call x.compare(y)
Compare(x, y) ==
    /\ last.act = "none"
    /\ IsObservableValue(x)
    /\ last' = TensorCall("compare", <<x, y>>, compare(tensors, x, y))
    /\ UNCHANGED <<ops, recording, queue, info, invLog, calls, em, tensors, listHeap>>

NextCompare ==
    /\ last.act = "none"
    /\ \E x, y \in Operands(tensors) : Compare(x, y)

SpecCompare == InitCompare /\ [][NextCompare]_vars

----------------------------------------------------------------------------
(* Claims C1 - C3: the inversion toggle and the hash *)

\* the operators of the heap whose constructor completed
Built == { o \in 1..Len(ops) : ops[o].built }
BuiltOperations == { o \in Built : IsOperation(ops[o].cls) }

\* the operator as it was when its constructor returned
Fresh(op) == [op EXCEPT !.inverse = FALSE]

\* C1: for any Operation, two calls of inv() return `inverse`, and with it
\* matrix(), eigvals(), name and label(), to their original values, whether the
\* two calls are made outside a recording context, inside one, or one of each.
C1_TwoTogglesRestore ==
    \A o \in BuiltOperations :
        Len(invLog[o]) = 2 =>
            /\ inverse(ops[o]) = FALSE
            /\ matrix(ops[o], NoArg) = matrix(Fresh(ops[o]), NoArg)
            /\ eigvals(ops[o]) = eigvals(Fresh(ops[o]))
            /\ name(ops[o]) = name(Fresh(ops[o]))
            /\ label(ops[o], NoArg, NoArg) = label(Fresh(ops[o]), NoArg, NoArg)

\* C2: after a single inv() on a freshly constructed Operation, made with or
\* without an active recording context, `inverse` is True, matrix() is the
\* conjugate transpose of compute_matrix, eigvals() is the complex conjugate of
\* compute_eigvals, name ends in ".inv" and label() carries the inverse marker.
C2_SingleToggleInverts ==
    \A o \in BuiltOperations :
        Len(invLog[o]) = 1 =>
            /\ inverse(ops[o]) = TRUE
            /\ IsOk(compute_matrix(ops[o])) =>
                  matrix(ops[o], NoArg) = Ok(ConjT(compute_matrix(ops[o]).val))
            /\ IsOk(compute_eigvals(ops[o])) =>
                  eigvals(ops[o]) = Ok(ConjVec(compute_eigvals(ops[o]).val))
            /\ name(ops[o]) = ops[o].cls \o ".inv"
            /\ label(ops[o], NoArg, NoArg).text = ops[o].cls \o "^-1"

\* RX(theta, wires=w) with the angle of op moved by delta
Shifted(op, delta) ==
    New("RX", << <<op.data[1][1] + delta>> >>, WiresKw(op.wires), FALSE).op

\* C3: Operator.hash is an integer derived from the name, the wires and the
\* canonicalized parameters: RX operators on the same wire whose angles differ
\* by 2 pi have the same hash, and those whose angles differ by pi do not.
C3_HashStable ==
    \A o \in Built :
        ops[o].cls = "RX" =>
            /\ ~hash(ops[o]).isNone
            /\ hash(Shifted(ops[o], TwoPi)) = hash(ops[o])
            /\ hash(Shifted(ops[o], Pi)) # hash(ops[o])

----------------------------------------------------------------------------
(* Claims C4 - C6: construction *)

\* the number of wires is the one the class declares, unless it declares
\* AnyWires or AllWires
WireRule(c, wires) ==
    \/ ClassTable[c].num_wires \in {AnyWires, AllWires}
    \/ Len(wires) = ClassTable[c].num_wires

\* the last positional argument and the ones before it
LastArg(args) == args[Len(args)]
FrontArgs(args) == SubSeq(args, 1, Len(args) - 1)

C5_PositionalWires ==
    (last.act = "construct" /\ ~last.w.given /\ last.args # <<>>) =>
        LET r == New(last.cls, FrontArgs(last.args), WiresKw(LastArg(last.args)),
                     last.dq)
        IN  /\ last.out = r.out
            /\ IsOk(last.out) => ops[last.id] = r.op

\* C6: a constructor call with do_queue=False in an active recording context
\* leaves the context as it was, and one with do_queue=True that constructs the
\* operator appends that operator, once, at the end of the queue.
C6_DoQueue ==
    [][ (calls' = calls + 1 /\ recording) =>
            /\ ~last'.dq => queue' = queue /\ info' = info
            /\ (last'.dq /\ IsOk(last'.out)) =>
                  /\ queue' = Append(queue, last'.id)
                  /\ Cardinality({ i \in 1..Len(queue') : queue'[i] = last'.id }) = 1
                  /\ ops' = Append(ops, ops'[last'.id])
       ]_vars

\* an operator was constructed with do_queue=False while recording
C6_Witness ==
    /\ last.act = "construct"
    /\ last.rec
    /\ ~last.dq
    /\ IsOk(last.out)
    /\ ~InQueue(last.id)
    /\ Len(queue) = last.qlen

----------------------------------------------------------------------------
(* Claims C7, C8: undefined representations *)

\* the class overrides none of the static computations
OverridesNothing(c) ==
    /\ ~ClassTable[c].compute_matrix.def
    /\ ~ClassTable[c].compute_eigvals.def
    /\ ~DefinesDecomposition(c)

\* C7: on an operator (Operator, Operation or Observable) that overrides none
\* of the computations, each of matrix(), sparse_matrix(), eigvals(), terms(),
\* decomposition(), diagonalizing_gates(), generator() and adjoint() fails with
\* an error kind of its own, derived from OperatorPropertyUndefined.
C7_UndefinedKinds ==
    \A o \in Built :
        OverridesNothing(ops[o].cls) =>
            \A m \in Methods :
                /\ CallMethod(ops[o], m).tag = "raise"
                /\ DerivesFrom(CallMethod(ops[o], m).err, "OperatorPropertyUndefined")
                /\ CallMethod(ops[o], m).err # "OperatorPropertyUndefined"
                /\ \A m2 \in Methods \ {m} :
                      CallMethod(ops[o], m2).err # CallMethod(ops[o], m).err

\* what Operator.eigvals is to return: compute_eigvals, else the eigenvalues of
\* matrix(), else EigvalsUndefinedError caused by the MatrixUndefinedError
EigvalsContract(op) ==
    IF IsOk(compute_eigvals(op)) THEN compute_eigvals(op)
    ELSE IF IsOk(matrix(op, NoArg)) THEN Ok(linalg_eigvals(matrix(op, NoArg).val))
    ELSE RaiseFrom("EigvalsUndefinedError", "MatrixUndefinedError")

----------------------------------------------------------------------------
(* C9 *)

\* the bit of basis state r (numbered from 0, of N wires) at position i
BitAt(r, N, i) == (r \div Pow2(N - i)) % 2

RECURSIVE RestrictTo(_, _, _, _)
\* basis state r of wire_order restricted to the first k wires of wires
RestrictTo(r, wires, wire_order, k) ==
    IF k = 0 THEN 0
    ELSE 2 * RestrictTo(r, wires, wire_order, k - 1)
         + BitAt(r, Len(wire_order), PosIn(wire_order, wires[k]))

\* basis states r and c agree on every wire of wire_order that is not in wires
AgreeOutside(r, c, wires, wire_order) ==
    \A i \in 1..Len(wire_order) :
        (\A k \in 1..Len(wires) : wires[k] # wire_order[i])
            => BitAt(r, Len(wire_order), i) = BitAt(c, Len(wire_order), i)

ExpandedEntry(M, wires, wire_order, r, c) ==
    IF AgreeOutside(r, c, wires, wire_order)
    THEN M[RestrictTo(r, wires, wire_order, Len(wires)) + 1]
          [RestrictTo(c, wires, wire_order, Len(wires)) + 1]
    ELSE CZero

RealPart(M) == [r \in 1..Len(M) |-> [c \in 1..Len(M[r]) |-> M[r][c][1]]]

\* C9: the result of expand_matrix(M, w, wire_order) has entry (r, c) equal to
\* M[r restricted to w, c restricted to w] when r and c agree on the wires of
\* wire_order outside w, and 0 otherwise; it is M when wire_order equals w, and
\* the matrices of the docstring for wires [0, 2] and the orders [2, 0], [0, 1, 2].
C9_ExpandMatrixEntries ==
    em.phase = "out" =>
        /\ Len(em.out) = Pow2(Len(em.wire_order))
        /\ \A r, c \in 0..(Pow2(Len(em.wire_order)) - 1) :
              em.out[r + 1][c + 1] = ExpandedEntry(em.base, em.wires, em.wire_order, r, c)
        /\ em.wire_order = em.wires => em.out = em.base
        /\ (em.base = BaseMatrix(2) /\ em.wires = <<0, 2>> /\ em.wire_order = <<2, 0>>)
              => RealPart(em.out) = << <<1, 3, 2, 4>>, <<9, 11, 10, 12>>,
                                       <<5, 7, 6, 8>>, <<13, 15, 14, 16>> >>
        /\ (em.base = BaseMatrix(2) /\ em.wires = <<0, 2>> /\ em.wire_order = <<0, 1, 2>>)
              => RealPart(em.out) = << <<1, 2, 0, 0, 3, 4, 0, 0>>,
                                       <<5, 6, 0, 0, 7, 8, 0, 0>>,
                                       <<0, 0, 1, 2, 0, 0, 3, 4>>,
                                       <<0, 0, 5, 6, 0, 0, 7, 8>>,
                                       <<9, 10, 0, 0, 11, 12, 0, 0>>,
                                       <<13, 14, 0, 0, 15, 16, 0, 0>>,
                                       <<0, 0, 9, 10, 0, 0, 11, 12>>,
                                       <<0, 0, 13, 14, 0, 0, 15, 16>> >>

\* an expansion onto a larger wire order has been computed
C9_Witness ==
    /\ em.phase = "out"
    /\ em.base = BaseMatrix(2)
    /\ em.wires = <<0, 2>>
    /\ em.wire_order = <<0, 1, 2>>
    /\ em.out[1][5] = <<3, -2>>

----------------------------------------------------------------------------
(* C10 *)

\* the two-term recipe [[c, 1, shift], [-c, 1, -shift]], c = 0.5 / sin(shift)
DefaultRecipe(shift) ==
    << <<2 \div TwoSin(shift), 1, shift>>, <<-(2 \div TwoSin(shift)), 1, -shift>> >>

\* the entry of the class's grad_recipe for parameter idx is a list of triples
ExplicitEntry(c, idx) ==
    /\ ~ClassTable[c].grad_recipe.isNone
    /\ idx + 1 <= Len(ClassTable[c].grad_recipe.val)
    /\ ~ClassTable[c].grad_recipe.val[idx + 1].isNone

\* C10: on an Operation with at least one parameter, for idx < num_params,
\* get_parameter_shift(idx, shift) returns grad_recipe[idx] when that is a list
\* of triples and the default two-term recipe otherwise; a grad_recipe of None,
\* as on operations whose grad_method is not "A", means the default recipe.
C10_ParameterShift ==
    \A o \in BuiltOperations :
        \A idx \in 0..(num_params(ops[o].cls, ops[o].nparams) - 1), shift \in Shifts :
            get_parameter_shift(ops[o], idx, shift) =
                Ok(IF ExplicitEntry(ops[o].cls, idx)
                   THEN ClassTable[ops[o].cls].grad_recipe.val[idx + 1].terms
                   ELSE DefaultRecipe(shift))

----------------------------------------------------------------------------
(* C11 *)

\* a sequence of operations inverted as a whole: reversed, each one inverted
InvertedSequence(operations) ==
    [i \in 1..Len(operations) |->
        [operations[Len(operations) + 1 - i] EXCEPT !.inverse = ~@]]

\* C11: expand() on an Operation whose decomposition is defined returns a tape
\* holding the operators of decomposition() in order, inverted as a whole when
\* the operation's inverse flag is set; the tape has no trainable parameters
\* when the operation has no parameters; nothing is appended to the recording
\* context that is active when expand() is called.
C11_ExpandIsolated ==
    [][ (last'.act = "expand" /\ IsOk(last'.out)) =>
            LET op == ops[last'.id]
                dec == decomposition(op).val
            IN  /\ IsOk(decomposition(op))
                /\ last'.tape.operations =
                      IF inverse(op) THEN InvertedSequence(dec) ELSE dec
                /\ op.data = <<>> => last'.tape.trainable = {}
                /\ queue' = queue
                /\ info' = info
                /\ ops' = ops
       ]_vars

\* an inverted operation with one parameter was expanded while recording
C11_Witness ==
    /\ last.act = "expand"
    /\ IsOk(last.out)
    /\ last.rec
    /\ inverse(ops[last.id])
    /\ Len(last.tape.operations) = 2
    /\ last.tape.operations[1].cls = "RX"
    /\ last.tape.operations[1].inverse

----------------------------------------------------------------------------
(* Claims C12 - C14: construction and products of Tensors *)

\* C12: after any sequence of Tensor constructions and products (Tensor @
\* Observable, Tensor @ Tensor, Observable @ Tensor, @=), no element of the obs
\* of any Tensor is itself a Tensor.
C12_ObsFlat ==
    \A t \in 1..Len(tensors) :
        \A i \in 1..Len(tensors[t].obs) : ~IsTensor(tensors[t].obs[i])

\* two Tensors were multiplied into one of four constituents
C12_Witness ==
    /\ last.act \in {"matmul", "imatmul"}
    /\ IsTensor(last.args[1])
    /\ IsTensor(last.args[2])
    /\ IsOk(last.out)
    /\ Len(tensors[last.out.val.ref].obs) = 4

\* C13: the obs of a Tensor is fixed at its construction: T @ x and x @ T leave
\* the obs and the wires of every existing Tensor as they were and yield the
\* product as a separate value.
C13_ProductLeavesOperands ==
    [][ (last'.act = "matmul" /\ IsOk(last'.out)) =>
            /\ \A t \in 1..Len(tensors) :
                  /\ tensors'[t].obs = tensors[t].obs
                  /\ Tensor_wires(tensors'[t]) = Tensor_wires(tensors[t])
            /\ last'.out.val.ref > Len(tensors)
       ]_vars

\* the constituents Tensor(args) has by the claim: those of a Tensor argument,
\* a plain observable itself, from left to right
Constituents(heap, args) ==
    Concat([i \in 1..Len(args) |->
               IF IsTensor(args[i]) THEN heap[args[i].ref].obs ELSE <<args[i]>>])

\* C14: Tensor(a1, ..., an) has as obs the concatenation, from left to right,
\* of the obs of its Tensor arguments and of its plain Observable arguments
\* themselves; with an argument that is no Observable the construction fails
\* (ValueError, the type-mismatch condition) and no Tensor is made.
C14_ConstructionFlattens ==
    [][ last'.act = "Tensor" =>
            IF \A i \in 1..Len(last'.args) : IsObservableValue(last'.args[i])
            THEN /\ IsOk(last'.out)
                 /\ Len(tensors') = Len(tensors) + 1
                 /\ last'.out.val.ref = Len(tensors')
                 /\ tensors'[Len(tensors')].obs = Constituents(tensors, last'.args)
            ELSE /\ Raises(last'.out, "ValueError")
                 /\ tensors' = tensors
       ]_vars

\* a Tensor was constructed from a Tensor of two constituents and an observable
C14_Witness ==
    /\ last.act = "Tensor"
    /\ Len(last.args) = 2
    /\ IsTensor(last.args[1])
    /\ ~IsTensor(last.args[2])
    /\ IsOk(last.out)
    /\ Len(tensors[last.out.val.ref].obs) = 3

----------------------------------------------------------------------------
(* Claims C15 - C19: the properties and methods of a Tensor *)

\* the wire labels of the constituents of T, in obs order, with repetitions
ConstituentLabels(T) == Concat([i \in 1..Len(T.obs) |-> T.obs[i].wires])

\* the first position of label l in the sequence w
FirstPos(w, l) == CHOOSE i \in 1..Len(w) : w[i] = l /\ \A j \in 1..(i - 1) : w[j] # l

\* w is the union of the constituents' wires in first-seen order
FirstSeenUnion(T, w) ==
    LET all == ConstituentLabels(T)
    IN  /\ \A i, j \in 1..Len(w) : i # j => w[i] # w[j]
        /\ { w[i] : i \in 1..Len(w) } = { all[i] : i \in 1..Len(all) }
        /\ \A i, j \in 1..Len(w) :
              i < j => FirstPos(all, w[i]) < FirstPos(all, w[j])

\* the parameter values of the constituents of T, one after the other
FlatParameters(T) == Concat([i \in 1..Len(T.obs) |-> T.obs[i].data])

\* C15 (as stated): the wires of a Tensor are the union of its constituents'
\* wires in first-seen order; data and parameters are both the flat
\* concatenation of the constituents' parameter values in obs order, and
\* num_params is the length of that list, so len(parameters) = num_params.
C15_ParametersFlat ==
    \A t \in 1..Len(tensors) :
        LET T == tensors[t]
        IN  /\ FirstSeenUnion(T, Tensor_wires(T))
            /\ Tensor_data(T) = FlatParameters(T)
            /\ Tensor_num_params(T) = Len(FlatParameters(T))
            /\ Len(Tensor_parameters(T)) = Tensor_num_params(T)
            /\ Tensor_parameters(T) = FlatParameters(T)

\* C15: the wires of a Tensor are the union of its constituents' wires in
\* first-seen order; data is the flat concatenation of the constituents'
\* parameter values in obs order and num_params is its length; parameters is
\* the list, in obs order, of the constituents' parameter lists, whose
\* concatenation is data.
C15_WiresAndParameters ==
    \A t \in 1..Len(tensors) :
        LET T == tensors[t]
        IN  /\ FirstSeenUnion(T, Tensor_wires(T))
            /\ Tensor_data(T) = FlatParameters(T)
            /\ Tensor_num_params(T) = Len(FlatParameters(T))
            /\ Len(Tensor_parameters(T)) = Len(T.obs)
            /\ \A i \in 1..Len(T.obs) : Tensor_parameters(T)[i] = T.obs[i].data
            /\ Concat(Tensor_parameters(T)) = Tensor_data(T)

\* a Tensor of two constituents that share a wire, one of them with a parameter
C15_Witness ==
    \E t \in 1..Len(tensors) :
        /\ Len(tensors[t].obs) = 2
        /\ tensors[t].obs[1].wires = <<0>>
        /\ tensors[t].obs[2].wires = <<0, 1>>
        /\ Tensor_num_params(tensors[t]) = 1
        /\ Len(Tensor_parameters(tensors[t])) = 2

\* every two constituents of T act on the same wires or on disjoint wires
IdenticalOrDisjoint(T) ==
    \A i, j \in 1..Len(T.obs) :
        \/ T.obs[i].wires = T.obs[j].wires
        \/ { T.obs[i].wires[k] : k \in 1..Len(T.obs[i].wires) } \cap
           { T.obs[j].wires[k] : k \in 1..Len(T.obs[j].wires) } = {}

\* the constituents of T on the same wires follow each other in obs
SameWiresAdjacent(T) ==
    \A i, j \in 1..Len(T.obs) :
        (i < j /\ T.obs[i].wires = T.obs[j].wires) =>
            \A k \in i..j : T.obs[k].wires = T.obs[i].wires

\* the number of distinct wires of T
NumDistinctWires(T) ==
    Cardinality({ ConstituentLabels(T)[i] : i \in 1..Len(ConstituentLabels(T)) })

SparseTargets == {NoWires, WiresKw(<<0, 1, 2>>), WiresKw(<<1, 0, 2>>)}

\* the wires of constituent o are a block of consecutive positions of wires
ContiguousIn(o, wires) ==
    /\ o.wires # <<>>
    /\ \E p \in 1..Len(wires) :
          /\ p + Len(o.wires) - 1 <= Len(wires)
          /\ \A k \in 1..Len(o.wires) : wires[p + k - 1] = o.wires[k]

\* C17: sparse_matrix(wires) of a Tensor (of at least one constituent) succeeds
\* when every constituent acts on one wire or on a contiguous block of wires
\* of the target ordering, and fails (ValueError, the structural-constraint
\* condition) only when the wires of some constituent are not contiguous.
C17_SparseMatrixContiguous ==
    \A t \in 1..Len(tensors) : \A w \in SparseTargets :
        LET T == tensors[t]
            wires == IF w.given THEN w.val ELSE Tensor_wires(T)
            r == Tensor_sparse_matrix(T, w)
        IN  T.obs # <<>> =>
               /\ (\A i \in 1..Len(T.obs) : ContiguousIn(T.obs[i], wires)) => IsOk(r)
               /\ ~IsOk(r) => /\ Raises(r, "ValueError")
                              /\ \E i \in 1..Len(T.obs) : ~ContiguousIn(T.obs[i], wires)

\* the return_type of the value v: of the Tensor it names, or its own
ReturnType(heap, v) == IF IsTensor(v) THEN heap[v.ref].return_type ELSE v.return_type

\* what prune() of the Tensor T returned by the claim, given the heaps before
\* and after the call
Pruned(T, out, before, after) ==
    LET rest == SelectSeq(T.obs, LAMBDA o : o.name # "Identity")
    IN  /\ IsOk(out)
        /\ Len(rest) = 0 =>
              /\ ~IsTensor(out.val)
              /\ out.val.name = "Identity"
              /\ out.val.wires = <<ConstituentLabels(T)[1]>>
        /\ Len(rest) = 1 =>
              /\ ~IsTensor(out.val)
              /\ out.val.name = rest[1].name
              /\ out.val.wires = rest[1].wires
              /\ out.val.data = rest[1].data
        /\ Len(rest) > 1 =>
              /\ IsTensor(out.val)
              /\ out.val.ref > Len(before)
              /\ after[out.val.ref].obs = rest
        /\ ReturnType(after, out.val) = T.return_type

\* C18 (as stated): prune() returns an Identity on the first wire of the
\* Tensor when it has no constituent other than Identity, the sole other
\* constituent when there is one, and otherwise a new Tensor of the other
\* constituents in order; in all cases the return_type of the result is that
\* of the Tensor.
C18_PruneAsStated ==
    [][ last'.act = "prune" =>
            Pruned(tensors[last'.args[1].ref], last'.out, tensors, tensors')
       ]_vars

\* C18: for a Tensor of at least one constituent, prune() returns an Identity
\* on the first wire of the Tensor when it has no constituent other than
\* Identity, the sole other constituent when there is one, and otherwise a new
\* Tensor of the other constituents in order; in all cases the return_type of
\* the result is that of the Tensor.
C18_Prune ==
    [][ (last'.act = "prune" /\ tensors[last'.args[1].ref].obs # <<>>) =>
            Pruned(tensors[last'.args[1].ref], last'.out, tensors, tensors')
       ]_vars

\* a measured Tensor of an Identity and one other constituent was pruned
C18_Witness ==
    /\ last.act = "prune"
    /\ IsOk(last.out)
    /\ tensors[last.args[1].ref].return_type = "Expectation"
    /\ Len(tensors[last.args[1].ref].obs) = 2
    /\ ~IsTensor(last.out.val)
    /\ last.out.val.name # "Identity"
    /\ last.out.val.return_type = "Expectation"

\* the constituents of the value v: those of the Tensor it names, or v itself
Factors(heap, v) == IF IsTensor(v) THEN heap[v.ref].obs ELSE <<v>>

\* the (name, wires, serialized parameters) triples of the factors of v other
\* than Identity
Triples(heap, v) ==
    { <<o.name, o.wires, [i \in 1..Len(o.data) |-> o.data[i][2]]>> :
        o \in { Factors(heap, v)[i] : i \in 1..Len(Factors(heap, v)) } \ {Identity2} }

\* C19: compare is symmetric and does not depend on the order of the factors
\* nor on Identity factors: A.compare(B) is true exactly when the sets of
\* (name, wires, serialized parameters) triples of the constituents of A and B
\* other than Identity are equal.
C19_Compare ==
    (last.act = "compare" /\ IsObservableValue(last.args[2])) =>
        /\ IsOk(last.out)
        /\ last.out = compare(tensors, last.args[2], last.args[1])
        /\ last.out.val = (Triples(tensors, last.args[1]) = Triples(tensors, last.args[2]))

\* a Tensor of two factors was found equal to the Tensor of the same factors
\* in the other order
C19_Witness ==
    /\ last.act = "compare"
    /\ last.args = <<TensorRef(1), TensorRef(2)>>
    /\ Len(tensors[1].obs) = 2
    /\ tensors[1].obs[1] # tensors[1].obs[2]
    /\ tensors[2].obs = <<tensors[1].obs[2], tensors[1].obs[1]>>
    /\ \A i \in 1..2 : tensors[1].obs[i].name # "Identity"
    /\ last.out = Ok(TRUE)

----------------------------------------------------------------------------
(* Claim C20: heisenberg_expand *)

\* C20: heisenberg_expand(U, wire_order) fails whenever len(U) differs from
\* 1 + 2 * (number of the operator's wires) or the operator's wires are not all
\* contained in wire_order, for every wire_order, one of the length of the
\* operator's wires and the empty one included; it returns no array then.
C20_HeisenbergExpandFails ==
    ( /\ last.act = "heisenberg_expand"
      /\ \/ Len(last.U.val) # 1 + 2 * Len(last.self.wires)
         \/ \E i \in 1..Len(last.self.wires) :
               \A j \in 1..Len(last.wire_order) : last.wire_order[j] # last.self.wires[i] )
    => ~IsOk(last.out)

----------------------------------------------------------------------------
(* Claim C21: where heisenberg_expand places the entries *)

\* the position (from 1) of wire w in wire_order
WireSlot(wire_order, w) == CHOOSE p \in 1..Len(wire_order) : wire_order[p] = w

\* the indices (from 1) of W that belong to no wire of the operator and are not
\* the identity's
OtherSlots(wire_order, wires) ==
    { i \in 2..(1 + 2 * Len(wire_order)) :
        \A k \in 1..Len(wires) : i \notin {2 * WireSlot(wire_order, wires[k]),
                                           2 * WireSlot(wire_order, wires[k]) + 1} }

\* W is the 1-D array U of an operator on wires, expanded to wire_order
Placed1D(W, U, wires, wire_order) ==
    /\ Len(W) = 1 + 2 * Len(wire_order)
    /\ W[1] = U[1]
    /\ \A k \in 1..Len(wires), e \in {0, 1} :
          W[2 * WireSlot(wire_order, wires[k]) + e] = U[2 * k + e]
    /\ \A i \in OtherSlots(wire_order, wires) : W[i] = 0

\* W is the 2-D array U of an operator on wires, expanded to wire_order
Placed2D(W, U, wires, wire_order, observable) ==
    LET dim == 1 + 2 * Len(wire_order)
        slot(k) == 2 * WireSlot(wire_order, wires[k])
        other == OtherSlots(wire_order, wires)
    IN  /\ Len(W) = dim
        /\ \A r \in 1..dim : Len(W[r]) = dim
        /\ W[1][1] = U[1][1]
        /\ \A k \in 1..Len(wires), e \in {0, 1} :
              /\ W[slot(k) + e][1] = U[2 * k + e][1]
              /\ W[1][slot(k) + e] = U[1][2 * k + e]
        /\ \A k1, k2 \in 1..Len(wires), e1, e2 \in {0, 1} :
              W[slot(k1) + e1][slot(k2) + e2] = U[2 * k1 + e1][2 * k2 + e2]
        /\ \A r, c \in 1..dim :
              (r \in other \/ c \in other) =>
                  W[r][c] = IF ~observable /\ r = c THEN 1 ELSE 0

\* C21: for every wire_order that contains the operator's wires, a permutation
\* of them included, heisenberg_expand returns an array of size
\* 1 + 2 * len(wire_order) with the identity coefficient at index 0 and the
\* (x, p) pair or block of the operator's k-th wire at the slot of that wire's
\* index in wire_order; every other entry is 0 for 1-D arrays and observables
\* and the identity matrix's entry for gates.
C21_HeisenbergExpandPlaces ==
    ( /\ last.act = "heisenberg_expand"
      /\ last.U.ndim \in {1, 2}
      /\ Len(last.U.val) = 1 + 2 * Len(last.self.wires)
      /\ contains_wires(last.wire_order, last.self.wires) )
    => /\ IsOk(last.out)
       /\ IF last.U.ndim = 1
          THEN Placed1D(last.out.val, last.U.val, last.self.wires, last.wire_order)
          ELSE Placed2D(last.out.val, last.U.val, last.self.wires, last.wire_order,
                        last.self.observable)

----------------------------------------------------------------------------
(* The adjoint transform (transforms/adjoint.py).                          *)
(*                                                                         *)
(* A quantum function is the sequence of the constructor calls it makes.   *)

MaxFnOps == 2

\* the constructor call cls(*args, wires=wires)
Gate(c, args, w) == [cls |-> c, args |-> args, wires |-> w]

\* the classes that override adjoint(): the rotations, whose adjoint is the
\* rotation by the negated angle (RX(0.123) becomes RX(-0.123))
DefinesAdjoint(c) == c \in {"RX", "CRX"}

Negated(data) == [i \in 1..Len(data) |-> [j \in 1..Len(data[i]) |-> -data[i][j]]]

\* the operators of a list of constructor calls, built with the given do_queue
Build(gates, do_queue) ==
    [i \in 1..Len(gates) |->
        Operation_init(gates[i].cls, gates[i].args, WiresKw(gates[i].wires), do_queue)]

\* op.adjoint(): the constructor call of the override (do_queue=False), or
\* Operation.adjoint
adjoint_of(op) ==
    IF DefinesAdjoint(op.cls) THEN Ok(Gate(op.cls, Negated(op.data), op.wires))
    ELSE Operation_adjoint(op)

\* is_adjoint_implemted(op): try op.adjoint(), except NotImplementedError
is_adjoint_implemted(op) ==
    LET r == adjoint_of(op)
    IN  IF IsOk(r) THEN Ok(TRUE)
        ELSE IF DerivesFrom(r.err, "NotImplementedError") THEN Ok(FALSE)
        ELSE r

RECURSIVE decompose_ops_until_all(_)
\* decompose_ops_until_all(ops, is_adjoint_implemted): every operator the
\* predicate rejects is replaced by its decomposition, again and again
decompose_ops_until_all(operations) ==
    IF operations = <<>> THEN Ok(<<>>)
    ELSE LET p == is_adjoint_implemted(Head(operations))
             first == IF ~IsOk(p) THEN p
                      ELSE IF p.val THEN Ok(<<Head(operations)>>)
                      ELSE LET d == decomposition(Head(operations))
                           IN  IF IsOk(d) THEN decompose_ops_until_all(d.val) ELSE d
         IN  IF ~IsOk(first) THEN first
             ELSE LET rest == decompose_ops_until_all(Tail(operations))
                  IN  IF ~IsOk(rest) THEN rest ELSE Ok(first.val \o rest.val)

Reversed(s) == [i \in 1..Len(s) |-> s[Len(s) + 1 - i]]

\* the first exception of a sequence of outcomes, None if there is none
FirstRaise(outs) ==
    IF \E i \in 1..Len(outs) : ~IsOk(outs[i])
    THEN outs[CHOOSE i \in 1..Len(outs) :
                  ~IsOk(outs[i]) /\ \A j \in 1..(i - 1) : IsOk(outs[j])]
    ELSE Ok(None)

\* what the wrapper leaves: its outcome, the operators fn recorded in the
\* inner tape, the adjoint operators, how many of them it queued in the
\* context active at the call, and whether it returns a single operator
AdjointResult(out, made, adjoint_ops, queued) ==
    [out |-> out, made |-> made, adjoint_ops |-> adjoint_ops, queued |-> queued,
     single |-> Len(adjoint_ops) = 1]

\* the objects of constructor results
Objects(built) == [i \in 1..Len(built) |-> built[i].op]

\* adjoints taken in construction order
forward_adjoints(operations) ==
    [i \in 1..Len(operations) |-> adjoint_of(operations[i])]

\* for op in reversed(ops): to_append = op.adjoint()
reversed_adjoints(operations) ==
    [i \in 1..Len(operations) |-> adjoint_of(Reversed(operations)[i])]

\* the adjoint operators are built, and queued if a context is recording
queue_adjoints(adj, made, rec) ==
    IF ~IsOk(FirstRaise(adj)) THEN AdjointResult(FirstRaise(adj), made, <<>>, 0)
    ELSE AdjointResult(Ok(<<>>), made,
                       Objects(Build([i \in 1..Len(adj) |-> adj[i].val], FALSE)),
                       IF rec THEN Len(adj) ELSE 0)

\* the operators of the tape after decompose_ops_until_all, adjointed
adjoint_decomposed(dec, made, rec) ==
    IF ~IsOk(dec) THEN AdjointResult(dec, made, <<>>, 0)
    ELSE queue_adjoints(reversed_adjoints(dec.val), made, rec)

\* with QuantumTape() as tape: fn(); ops = tape.operations
adjoint_recorded(outs, made, rec) ==
    IF ~IsOk(FirstRaise(outs)) THEN AdjointResult(FirstRaise(outs), <<>>, <<>>, 0)
    ELSE adjoint_decomposed(decompose_ops_until_all(made), made, rec)

\* the wrapper's body on the results of fn's constructor calls
adjoint_built(built, rec) ==
    adjoint_recorded([i \in 1..Len(built) |-> built[i].out], Objects(built), rec)

\* adjoint(fn)(): fn runs in a fresh tape while the context active at the call
\* is stopped; the adjoints of the recorded operators, last one first, are
\* queued in that context afterwards
wrapper(fn, rec) == adjoint_built(Build(fn, TRUE), rec)

\* the effect of a call of the wrapper with result r on the heap and the context
AdjointEffect(fn, r, m, n) ==
    /\ ops' = ops \o r.made \o r.adjoint_ops
    /\ invLog' = invLog \o [i \in 1..(m + n) |-> <<>>]
    /\ queue' = queue \o [i \in 1..r.queued |-> Len(ops) + m + i]
    /\ info' = info \o [i \in 1..r.queued |-> NoInfo]
    /\ last' = [act |-> "adjoint", fn |-> fn, out |-> r.out,
                made |-> [i \in 1..m |-> Len(ops) + i],
                ids |-> [i \in 1..n |-> Len(ops) + m + i], single |-> r.single,
                rec |-> recording, queue |-> queue]

AdjointCall(fn, r) == AdjointEffect(fn, r, Len(r.made), Len(r.adjoint_ops))

\* the call adjoint(fn)().  The operators of the inner tape and the adjoint
\* operators become objects of the heap, in that order.
Adjoint(fn) ==
    /\ calls < MaxOps
    /\ calls' = calls + 1
    /\ AdjointCall(fn, wrapper(fn, recording))
    /\ UNCHANGED <<recording, em, tensors, listHeap>>

\* the constructor calls quantum functions are made of
FnGates ==
    { Gate("RX", << <<1>> >>, <<0>>), Gate("RX", << <<2>> >>, <<1>>),
      Gate("CRX", << <<3>> >>, <<0, 1>>), Gate("CustomOp", << <<4>> >>, <<0, 1>>) }

\* the quantum functions of at most MaxFnOps constructor calls
QuantumFunctions == UNION { [1..n -> FnGates] : n \in 0..MaxFnOps }

NextAdjoint ==
    \/ EnterContext
    \/ ExitContext
    \/ \E fn \in QuantumFunctions : Adjoint(fn)

SpecAdjoint == Init /\ [][NextAdjoint]_vars

----------------------------------------------------------------------------
(* Claim C22: the adjoint transform *)

\* every operator fn constructs overrides adjoint()
AllAdjointable(fn) == \A i \in 1..Len(fn) : DefinesAdjoint(fn[i].cls)

\* C22: for a quantum function fn that constructs operations o1..on with an
\* adjoint, adjoint(fn)() returns the adjoints of on, ..., o1 in that order
\* (a single operator when there is exactly one); a context recording at the
\* call gains exactly those adjoint operators, in that order, and none of
\* o1..on; when none is recording, nothing is recorded.
C22_AdjointReversed ==
    (last.act = "adjoint" /\ AllAdjointable(last.fn)) =>
        LET n == Len(last.fn)
        IN  /\ IsOk(last.out)
            /\ Len(last.ids) = n
            /\ last.single = (n = 1)
            /\ \A i \in 1..n :
                  /\ ops[last.ids[i]].cls = last.fn[n + 1 - i].cls
                  /\ ops[last.ids[i]].wires = last.fn[n + 1 - i].wires
                  /\ ops[last.ids[i]].data = Negated(last.fn[n + 1 - i].args)
                  /\ ops[last.ids[i]].built
                  /\ ~ops[last.ids[i]].inverse
            /\ queue = IF last.rec THEN last.queue \o last.ids ELSE last.queue
            /\ \A i \in 1..Len(last.made) : ~InQueue(last.made[i])

\* a recording context has gained the adjoints of two different operators
C22_Witness ==
    /\ last.act = "adjoint"
    /\ AllAdjointable(last.fn)
    /\ last.rec
    /\ Len(last.fn) = 2
    /\ last.fn[1] # last.fn[2]
    /\ Len(queue) = Len(last.queue) + 2

----------------------------------------------------------------------------
(* Claim C30: operators without an adjoint under the adjoint transform *)

RECURSIVE Decomposed(_)
\* the operators with every one that lacks an adjoint replaced by its decomposition
Decomposed(operations) ==
    IF operations = <<>> THEN <<>>
    ELSE (IF DefinesAdjoint(Head(operations).cls) THEN <<Head(operations)>>
          ELSE Decomposed(decomposition(Head(operations)).val))
         \o Decomposed(Tail(operations))

\* C30: when adjoint(fn) is applied to a function that constructs an Operation
\* whose adjoint() is undefined (the default), the undefined-adjoint error does
\* not escape: the operation is replaced by its decomposition and the adjoints
\* of the decomposed operations are returned in reverse order.
C30_UndefinedAdjointDecomposed ==
    ( /\ last.act = "adjoint"
      /\ \E i \in 1..Len(last.fn) : ~DefinesAdjoint(last.fn[i].cls) )
    => /\ IsOk(last.out)
       /\ LET expected == Reversed(Decomposed([i \in 1..Len(last.made) |-> ops[last.made[i]]]))
          IN  /\ Len(last.ids) = Len(expected)
              /\ \A i \in 1..Len(expected) :
                    /\ ops[last.ids[i]].cls = expected[i].cls
                    /\ ops[last.ids[i]].wires = expected[i].wires
                    /\ ops[last.ids[i]].data = Negated(expected[i].data)

----------------------------------------------------------------------------
(* The AngleEmbedding template (templates/embeddings/angle.py).            *)
(*                                                                         *)
(* features is a 1-D array, a sequence of numbers; the object is the       *)
(* Operation's fields together with its hyperparameters.                   *)

MaxFeatures == 2

ROT == [X |-> "RX", Y |-> "RY", Z |-> "RZ"]

NoHyperparameters == [rotation |-> None]

\* a constructor that passes all the wires to Operation.__init__
AngleEmbedding_init_all_wires(features, wires, rotation, do_queue) ==
    IF rotation \notin DOMAIN ROT
    THEN [init |-> InitResult(Raise("ValueError"), NoOp, FALSE),
          hyperparameters |-> NoHyperparameters]
    ELSE IF Len(features) > Len(wires)
    THEN [init |-> InitResult(Raise("ValueError"), NoOp, FALSE),
          hyperparameters |-> NoHyperparameters]
    ELSE [init |-> Operation_init("AngleEmbedding", <<features>>, WiresKw(wires), do_queue),
          hyperparameters |-> [rotation |-> ROT[rotation]]]

\* AngleEmbedding.__init__(features, wires, rotation="X", do_queue=True)
AngleEmbedding_init(features, wires, rotation, do_queue) ==
    IF rotation \notin DOMAIN ROT
    THEN [init |-> InitResult(Raise("ValueError"), NoOp, FALSE),
          hyperparameters |-> NoHyperparameters]
    ELSE IF Len(features) > Len(wires)
    THEN [init |-> InitResult(Raise("ValueError"), NoOp, FALSE),
          hyperparameters |-> NoHyperparameters]
    ELSE [init |-> Operation_init("AngleEmbedding", <<features>>,
                                  WiresKw(SubSeq(wires, 1, Len(features))), do_queue),
          hyperparameters |-> [rotation |-> ROT[rotation]]]

\* AngleEmbedding.compute_decomposition(features, wires, rotation) of a 1-D
\* features: features[i] past the end raises IndexError
AngleEmbedding_compute_decomposition(features, wires, rotation) ==
    IF Len(wires) > Len(features) THEN Raise("IndexError")
    ELSE Ok(Objects(Build([i \in 1..Len(wires) |->
                              Gate(rotation, << <<features[i]>> >>, <<wires[i]>>)], TRUE)))

\* Operator.decomposition() of an AngleEmbedding e
AngleEmbedding_decomposition(op, hyperparameters) ==
    AngleEmbedding_compute_decomposition(parameters(op)[1], op.wires,
                                         hyperparameters.rotation)

\* the decomposition of a constructed embedding, None of one that failed
DecompositionOf(e) ==
    IF IsOk(e.init.out) THEN AngleEmbedding_decomposition(e.init.op, e.hyperparameters)
    ELSE Ok(None)

EmbedEffect(features, wires, rotation, e) ==
    /\ ops' = IF IsOk(e.init.out) THEN Append(ops, e.init.op) ELSE ops
    /\ invLog' = IF IsOk(e.init.out) THEN Append(invLog, <<>>) ELSE invLog
    /\ queue' = IF e.init.queued /\ recording THEN Append(queue, Len(ops) + 1) ELSE queue
    /\ info' = IF e.init.queued /\ recording THEN Append(info, NoInfo) ELSE info
    /\ last' = [act |-> "embed", features |-> features, wires |-> wires,
                rotation |-> rotation, out |-> e.init.out, op |-> e.init.op,
                hyperparameters |-> e.hyperparameters, dec |-> DecompositionOf(e),
                rec |-> recording, queue |-> queue]

\* e = AngleEmbedding(features, wires, rotation) followed by e.decomposition()
Embed(features, wires, rotation) ==
    /\ calls' = calls + 1
    /\ EmbedEffect(features, wires, rotation,
                   AngleEmbedding_init(features, wires, rotation, TRUE))
    /\ UNCHANGED <<recording, em, tensors, listHeap>>

\* features of at most MaxFeatures entries, at most MaxOrder wires, the three
\* axes and an unknown one; one embedding is made
NextEmbedding ==
    \/ EnterContext
    \/ ExitContext
    \/ /\ calls = 0
       /\ \E features \in UNION { [1..n -> {1, 2}] : n \in 0..MaxFeatures },
             wires \in WireSeqs \cup {<<>>}, rotation \in {"X", "Y", "Z", "W"} :
              Embed(features, wires, rotation)

SpecEmbedding == Init /\ [][NextEmbedding]_vars

----------------------------------------------------------------------------
(* Claim C23: AngleEmbedding *)

\* C23: for features of length N and n >= N wires, an AngleEmbedding acts only
\* on the first N of the given wires, and its decomposition is exactly N
\* rotation gates of the chosen axis, the i-th applying features[i] to the i-th
\* wire, in wire order; the remaining n - N wires get no rotation.
C23_AngleEmbedding ==
    ( /\ last.act = "embed"
      /\ last.rotation \in DOMAIN ROT
      /\ Len(last.features) <= Len(last.wires) )
    => /\ IsOk(last.out)
       /\ last.op.wires = SubSeq(last.wires, 1, Len(last.features))
       /\ IsOk(last.dec)
       /\ Len(last.dec.val) = Len(last.features)
       /\ \A i \in 1..Len(last.features) :
             /\ last.dec.val[i].cls = ROT[last.rotation]
             /\ last.dec.val[i].data = << <<last.features[i]>> >>
             /\ last.dec.val[i].wires = <<last.wires[i]>>
             /\ last.dec.val[i].built

\* two different features embedded on three wires with RY rotations
C23_Witness ==
    /\ last.act = "embed"
    /\ last.rotation = "Y"
    /\ Len(last.features) = 2
    /\ last.features[1] # last.features[2]
    /\ Len(last.wires) = 3
    /\ IsOk(last.dec)
    /\ Len(last.dec.val) = 2

----------------------------------------------------------------------------
(* Parameter lists.                                                        *)
(*                                                                         *)
(* Python lists are objects of listHeap; here an operator's data field     *)
(* holds the reference of its list, and a caller holds the reference that  *)
(* the parameters property returned last (last.ref, 0 if none).            *)

MaxListCalls == 3

\* what a call leaves: the heap and the reference or value it returns
HeapResult(heap, ref, out) == [heap |-> heap, ref |-> ref, out |-> out]

\* list.copy(): a new list object with the same elements
list_copy(heap, ref) == HeapResult(Append(heap, heap[ref]), Len(heap) + 1, Ok(<<>>))

\* a parameters property that returns the stored list itself
Operator_parameters_alias(heap, op) == HeapResult(heap, op.data, Ok(<<>>))

\* Operator.parameters: self.data.copy()
Operator_parameters(heap, op) == list_copy(heap, op.data)

\* CV._heisenberg_rep(p) as QuadraticPhase overrides it, None by default
heisenberg_rep(c, p) ==
    IF c = "QuadraticPhase"
    THEN << <<1, 0, 0>>, <<0, 1, 0>>, <<0, p[1][1], 1>> >>
    ELSE None

\* the default recipe of heisenberg_pd: multiplier 0.5 (in halves), a = 1,
\* shift pi / 2
default_param_shift == << <<1, 1, Pi \div 2>>, <<-1, 1, -(Pi \div 2)>> >>

\* p[idx] = _a * original_p_idx + s
shifted(p, idx, original_p_idx, term) ==
    [p EXCEPT ![idx + 1] = [j \in 1..Len(original_p_idx) |->
                               term[2] * original_p_idx[j] + term[3]]]

RECURSIVE partial_derivative(_, _, _, _, _)
\* the loop of heisenberg_pd over the terms from the k-th on: pd += c * U
partial_derivative(c, p, idx, param_shift, k) ==
    IF k > Len(param_shift) THEN [r \in 1..3 |-> [x \in 1..3 |-> 0]]
    ELSE LET U == heisenberg_rep(c, shifted(p, idx, p[idx + 1], param_shift[k]))
             rest == partial_derivative(c, p, idx, param_shift, k + 1)
         IN  [r \in 1..3 |-> [x \in 1..3 |-> param_shift[k][1] * U[r][x] + rest[r][x]]]

\* the body of heisenberg_pd on the list p = self.parameters: p[idx] past the
\* end raises IndexError; the list is left with the entry of the last term
heisenberg_pd_on(op, idx, param_shift, p) ==
    IF idx + 1 > Len(p.heap[p.ref]) THEN HeapResult(p.heap, p.ref, Raise("IndexError"))
    ELSE HeapResult([p.heap EXCEPT ![p.ref] =
                   IF param_shift = <<>> THEN @
                   ELSE shifted(@, idx, @[idx + 1], param_shift[Len(param_shift)])],
               p.ref,
               Ok(partial_derivative(op.cls, p.heap[p.ref], idx, param_shift, 1)))

\* CVOperation.heisenberg_pd(idx)
heisenberg_pd(heap, op, idx) ==
    IF op.grad_recipe.isNone THEN HeapResult(heap, 0, Raise("TypeError"))
    ELSE IF idx + 1 > Len(op.grad_recipe.val) THEN HeapResult(heap, 0, Raise("IndexError"))
    ELSE heisenberg_pd_on(op, idx,
                          IF op.grad_recipe.val[idx + 1].isNone THEN default_param_shift
                          ELSE op.grad_recipe.val[idx + 1].terms,
                          Operator_parameters(heap, op))

ListCall(act, ref, out) == [act |-> act, ref |-> ref, out |-> out]

\* a QuadraticPhase(s, wires=0) has been constructed: self.data = list(params)
InitParameters ==
    /\ \E s \in {1, 2} :
          /\ ops = << [Operation_init("QuadraticPhase", << <<s>> >>, WiresKw(<<0>>), FALSE).op
                          EXCEPT !.data = 1] >>
          /\ listHeap = << << <<s>> >> >>
    /\ recording = FALSE
    /\ queue = <<>>
    /\ info = <<>>
    /\ last = ListCall("none", 0, Ok(<<>>))
    /\ invLog = << <<>> >>
    /\ calls = 0
    /\ em = NoExpand
    /\ tensors = <<>>

HeapEffect(act, r) ==
    /\ listHeap' = r.heap
    /\ last' = ListCall(act, r.ref, r.out)

\* p = op.parameters
GetParameters ==
    /\ calls < MaxListCalls
    /\ HeapEffect("parameters", Operator_parameters(listHeap, ops[1]))
    /\ calls' = calls + 1
    /\ UNCHANGED <<ops, recording, queue, info, invLog, em, tensors>>

\* the list the caller holds becomes new
Mutate(act, new) ==
    /\ listHeap' = [listHeap EXCEPT ![last.ref] = new]
    /\ last' = ListCall(act, last.ref, Ok(<<>>))
    /\ calls' = calls + 1
    /\ UNCHANGED <<ops, recording, queue, info, invLog, em, tensors>>

\* op.heisenberg_pd(idx); the caller keeps the list it holds
HeisenbergPd(idx) ==
    /\ calls < MaxListCalls
    /\ listHeap' = heisenberg_pd(listHeap, ops[1], idx).heap
    /\ last' = ListCall("heisenberg_pd", last.ref, heisenberg_pd(listHeap, ops[1], idx).out)
    /\ calls' = calls + 1
    /\ UNCHANGED <<ops, recording, queue, info, invLog, em, tensors>>

Held == listHeap[last.ref]

\* p.append(v)
ListAppend(v) ==
    /\ calls < MaxListCalls
    /\ last.ref # 0
    /\ Mutate("append", Append(Held, v))

\* del p[i]
ListDel ==
    /\ calls < MaxListCalls
    /\ last.ref # 0
    /\ \E i \in 1..Len(Held) :
          Mutate("del", SubSeq(Held, 1, i - 1) \o SubSeq(Held, i + 1, Len(Held)))

\* p[i] = v
ListSetItem(v) ==
    /\ calls < MaxListCalls
    /\ last.ref # 0
    /\ \E i \in 1..Len(Held) : Mutate("setitem", [Held EXCEPT ![i] = v])

NextParameters ==
    \/ GetParameters
    \/ ListAppend(<<7>>)
    \/ ListDel
    \/ ListSetItem(<<7>>)
    \/ \E idx \in {0, 1} : HeisenbergPd(idx)

SpecParameters == InitParameters /\ [][NextParameters]_vars

----------------------------------------------------------------------------
(* Claim C24: parameters is a copy *)

\* C24: the list returned by the parameters property is a copy: adding,
\* removing or replacing elements of it never changes the operator's stored
\* data, and heisenberg_pd(idx), which overwrites entries of such a copy while
\* it evaluates the shifted parameters, leaves the data unchanged.
C24_ParametersCopy ==
    [][ops'[1].data = ops[1].data /\ listHeap'[ops'[1].data] = listHeap[ops[1].data]]_vars

\* heisenberg_pd has returned a derivative and left a list that differs from
\* the data, after the caller appended to the list it holds
C24_Witness ==
    /\ last.act = "heisenberg_pd"
    /\ IsOk(last.out)
    /\ last.ref # 0
    /\ Len(listHeap[last.ref]) > Len(listHeap[ops[1].data])
    /\ listHeap[Len(listHeap)] # listHeap[ops[1].data]

----------------------------------------------------------------------------
(* Assignment to name.                                                     *)

\* Operator.name's setter: self._name = value
Operator_name_setter(op, value) == [op EXCEPT !.name = value]

\* what an assignment leaves: its outcome and the object
SetResult(out, op) == [out |-> out, op |-> op]

\* op.name = value: Operator's property has a setter; Operation defines name
\* again, as a property with a getter alone
set_name(op, value) ==
    IF IsOperation(op.cls) THEN SetResult(Raise("AttributeError"), op)
    ELSE SetResult(Ok(<<>>), Operator_name_setter(op, value))

\* the statement ops[o].name = value
SetName(o, value) ==
    /\ o \in 1..Len(ops)
    /\ ops[o].built
    /\ ops' = [ops EXCEPT ![o] = set_name(ops[o], value).op]
    /\ last' = [act |-> "setname", id |-> o, value |-> value,
                out |-> set_name(ops[o], value).out]
    /\ UNCHANGED <<recording, queue, info, invLog, calls, em, tensors, listHeap>>

\* operators are constructed, inverted and renamed
NextName ==
    \/ EnterContext
    \/ ExitContext
    \/ \E c \in Classes, do_queue \in BOOLEAN :
          \E args \in CanonArgSets(c) : Construct(c, args, CanonWires(c), do_queue)
    \/ \E o \in 1..MaxOps : Inv(o)
    \/ \E o \in 1..MaxOps, value \in {"Renamed", "Other"} : SetName(o, value)

SpecName == Init /\ [][NextName]_vars

----------------------------------------------------------------------------
(* Claim C25: name is mutable *)

\* C25: the name of any operator, any Operation included, can be reassigned
\* after construction, and a later read of name gives the assigned value, with
\* the inverse marker appended for an inverted Operation.
C25_NameReassignable ==
    last.act = "setname" =>
        /\ IsOk(last.out)
        /\ name(ops[last.id]) =
              IF IsOperation(ops[last.id].cls) /\ inverse(ops[last.id])
              THEN last.value \o ".inv" ELSE last.value

----------------------------------------------------------------------------
(* Claim C26: a failed construction and the recording context *)

\* C26: every construction-time validation happens before the operator reports
\* itself to the recording context: whenever the construction of an operator
\* fails, the recording context is exactly as it was before the call and holds
\* no reference to the failed operator.
C26_FailedConstructionUnrecorded ==
    (last.act = "construct" /\ ~IsOk(last.out)) =>
        /\ Len(queue) = last.qlen
        /\ Len(info) = last.qlen
        /\ last.id = 0
        /\ \A o \in 1..Len(ops) : InQueue(o) => ops[o].built

----------------------------------------------------------------------------
(* Eigenvalues of a Tensor and their cache.                                *)

standard_observables == {"PauliX", "PauliY", "PauliZ", "Hadamard"}

RECURSIVE pauli_eigs(_)
\* pauli_eigs(n): the eigenvalues of Z on n qubits
pauli_eigs(n) ==
    IF n = 1 THEN <<1, -1>>
    ELSE pauli_eigs(n - 1) \o [i \in 1..Pow2(n - 1) |-> -pauli_eigs(n - 1)[i]]

\* np.kron of two 1-D arrays
kron(a, b) ==
    [i \in 1..(Len(a) * Len(b)) |-> a[((i - 1) \div Len(b)) + 1] * b[((i - 1) % Len(b)) + 1]]

\* ns_ob.eigvals() of a non-standard observable: Identity's are (1, 1),
\* Hermitian's those of its matrix, here a diagonal one
Observable_eigvals(o) ==
    IF o.name = "Identity" THEN <<1, 1>>
    ELSE [i \in 1..o.data[1][1][1] |-> o.data[1][2][(i - 1) * o.data[1][1][2] + i]]

\* the key of sorted(): [str(l) for l in x.wires.labels], compared as lists
RECURSIVE KeyLess(_, _)
KeyLess(a, b) ==
    IF a = <<>> THEN b # <<>>
    ELSE IF b = <<>> THEN FALSE
    ELSE IF Head(a) # Head(b) THEN Head(a) < Head(b)
    ELSE KeyLess(Tail(a), Tail(b))

RECURSIVE sorted(_)
\* sorted(self.obs, key=...): stable
sorted(obs) ==
    IF obs = <<>> THEN <<>>
    ELSE LET rest == sorted(SubSeq(obs, 1, Len(obs) - 1))
             x == obs[Len(obs)]
             k == Cardinality({ i \in 1..Len(rest) : ~KeyLess(x.wires, rest[i].wires) })
         IN  SubSeq(rest, 1, k) \o <<x>> \o SubSeq(rest, k + 1, Len(rest))

\* the length of the first group of itertools.groupby: the leading entries
\* with the key of the first
RunLength(obs_sorted) ==
    LET key(i) == obs_sorted[i].name \in standard_observables
    IN  CHOOSE n \in 1..Len(obs_sorted) :
            /\ \A i \in 1..n : key(i) = key(1)
            /\ n < Len(obs_sorted) => key(n + 1) # key(1)

RECURSIVE kron_all(_, _)
\* the loop over the non-standard observables of a group
kron_all(cache, g) ==
    IF g = <<>> THEN cache
    ELSE kron_all(kron(cache, Observable_eigvals(Head(g))), Tail(g))

RECURSIVE eigvals_groups(_, _)
\* the loop of eigvals() over the groups of obs_sorted
eigvals_groups(cache, obs_sorted) ==
    IF obs_sorted = <<>> THEN cache
    ELSE LET n == RunLength(obs_sorted)
             g == SubSeq(obs_sorted, 1, n)
             rest == SubSeq(obs_sorted, n + 1, Len(obs_sorted))
         IN  IF g[1].name \in standard_observables
             THEN eigvals_groups(kron(cache, pauli_eigs(n)), rest)
             ELSE eigvals_groups(kron_all(cache, g), rest)

\* the eigenvalues eigvals() computes when nothing is cached
Tensor_compute_eigvals(T) ==
    IF \E i \in 1..Len(T.obs) : T.obs[i].name \notin standard_observables
    THEN eigvals_groups(<<1>>, sorted(T.obs))
    ELSE pauli_eigs(Len(Tensor_wires(T)))

\* an eigvals() that computes the eigenvalues at every call
Tensor_eigvals_uncached(heap, t) ==
    TensorResult(Ok(Tensor_compute_eigvals(heap[t])),
                 [heap EXCEPT ![t].eigvals_cache = Cached(Tensor_compute_eigvals(heap[t]))])

\* Tensor.eigvals(): the cached array if there is one
Tensor_eigvals(heap, t) ==
    IF ~heap[t].eigvals_cache.isNone THEN TensorResult(Ok(heap[t].eigvals_cache.val), heap)
    ELSE TensorResult(Ok(Tensor_compute_eigvals(heap[t])),
                      [heap EXCEPT ![t].eigvals_cache = Cached(Tensor_compute_eigvals(heap[t]))])

\* Tensor.__copy__: a new Tensor with a copy of obs and the same cache
Tensor_copy(heap, t) ==
    TensorResult(Ok(TensorRef(Len(heap) + 1)),
                 Append(heap, [NewTensor(heap[t].obs) EXCEPT
                                  !.eigvals_cache = heap[t].eigvals_cache]))

\* the call tensors[t].eigvals() of a Tensor with constituents
Eigvals(t) ==
    /\ calls < MaxTensorCalls
    /\ t \in 1..Len(tensors)
    /\ tensors[t].obs # <<>>
    /\ tensors' = Tensor_eigvals(tensors, t).heap
    /\ last' = TensorCall("eigvals", <<TensorRef(t)>>, Ok(<<>>))
    /\ calls' = calls + 1
    /\ UNCHANGED <<ops, recording, queue, info, invLog, em, listHeap>>

\* copy.copy(tensors[t])
Copy(t) ==
    /\ calls < MaxTensorCalls
    /\ t \in 1..Len(tensors)
    /\ tensors' = Tensor_copy(tensors, t).heap
    /\ last' = TensorCall("copy", <<TensorRef(t)>>, Tensor_copy(tensors, t).out)
    /\ calls' = calls + 1
    /\ UNCHANGED <<ops, recording, queue, info, invLog, em, listHeap>>

\* the observables of the eigenvalue specification: single-qubit ones on
\* distinct wires
PauliZ1 == Operand("Observable", "PauliZ", <<1>>, <<>>, 0)
EigvalsObservables == {PauliX0, PauliZ1, Identity2}

\* a Tensor of one or two of them has been constructed
InitEigvals ==
    /\ ops = <<>>
    /\ recording = FALSE
    /\ queue = <<>>
    /\ info = <<>>
    /\ last = NoTensorCall
    /\ invLog = <<>>
    /\ calls = 0
    /\ em = NoExpand
    /\ listHeap = <<>>
    /\ \E a \in UNION { [1..n -> EigvalsObservables] : n \in 1..2 } :
          tensors = Tensor_init(<<>>, a).heap

NextEigvals ==
    \/ \E x, y \in EigvalsObservables \cup { TensorRef(t) : t \in 1..Len(tensors) },
          inplace \in BOOLEAN : Matmul(x, y, inplace)
    \/ \E t \in 1..MaxTensorCalls : Eigvals(t)
    \/ \E t \in 1..MaxTensorCalls : Copy(t)

SpecEigvals == InitEigvals /\ [][NextEigvals]_vars

----------------------------------------------------------------------------
(* Claim C27: eigvals() after products *)

\* the constituents are on pairwise distinct single wires
SingleQubitDistinct(T) ==
    /\ \A i \in 1..Len(T.obs) : Len(T.obs[i].wires) = 1
    /\ \A i, j \in 1..Len(T.obs) : i # j => T.obs[i].wires # T.obs[j].wires

\* C27: after any sequence of Tensor constructions, tensor products (@,
\* reflected @, @=), copies and eigvals() calls, T.eigvals() equals the
\* eigenvalues a freshly constructed Tensor with T's current obs computes; its
\* length is 2^(number of T's wires) for single-qubit constituents on distinct
\* wires.
C27_EigvalsCurrent ==
    \A t \in 1..Len(tensors) :
        tensors[t].obs # <<>> =>
            /\ Tensor_eigvals(tensors, t).out =
                  Tensor_eigvals(<<NewTensor(tensors[t].obs)>>, 1).out
            /\ SingleQubitDistinct(tensors[t]) =>
                  Len(Tensor_eigvals(tensors, t).out.val) =
                      Pow2(Len(Tensor_wires(tensors[t])))

----------------------------------------------------------------------------
(* Ownership annotations of the recording context.                         *)
(*                                                                         *)
(* Here the queue holds the objects themselves, observables and Tensors,   *)
(* and info their annotations: the owner, and the owns tuple of a Tensor.  *)

NoOwner == Operand("None", "None", <<>>, <<>>, 0)
NoAnnotation == [owner |-> NoOwner, owns |-> <<>>, has_owns |-> FALSE]
Owns(owns) == [owner |-> NoOwner, owns |-> owns, has_owns |-> TRUE]

Context(q, i) == [queue |-> q, info |-> i]

\* the position of object o in the context's queue, 0 if it is not queued
PosOf(ctx, o) ==
    IF \E i \in 1..Len(ctx.queue) : ctx.queue[i] = o
    THEN CHOOSE i \in 1..Len(ctx.queue) : ctx.queue[i] = o
    ELSE 0

\* context.append(o, **annotation): the entry of o is created or replaced
context_append(ctx, o, annotation) ==
    IF PosOf(ctx, o) # 0 THEN [ctx EXCEPT !.info[PosOf(ctx, o)] = annotation]
    ELSE Context(Append(ctx.queue, o), Append(ctx.info, annotation))

\* context.update_info(o, owner=T) and context.update_info(T, owns=owns) of
\* queued objects
update_owner(ctx, o, T) == [ctx EXCEPT !.info[PosOf(ctx, o)].owner = T]
update_owns(ctx, T, owns) ==
    [ctx EXCEPT !.info[PosOf(ctx, T)].owns = owns, !.info[PosOf(ctx, T)].has_owns = TRUE]

\* try: update_info(o, owner=self); except QueuingError: o.queue(), update_info
queue_owner(ctx, o, T) ==
    IF PosOf(ctx, o) = 0 THEN update_owner(context_append(ctx, o, NoAnnotation), o, T)
    ELSE update_owner(ctx, o, T)

RECURSIVE queue_owners(_, _, _)
\* the loop of Tensor.queue over the constituents
queue_owners(ctx, constituents, T) ==
    IF constituents = <<>> THEN ctx
    ELSE queue_owners(queue_owner(ctx, Head(constituents), T), Tail(constituents), T)

\* Tensor.queue(init=True) of the Tensor self made from args: every argument
\* gets the owner self, then self is appended with owns=tuple(args)
Tensor_queue_context(ctx, self, args) ==
    context_append(queue_owners(ctx, args, self), self, Owns(args))

\* the recording branch of Tensor.__matmul__
Tensor_matmul_context(ctx, self, other) ==
    update_owner(update_owns(ctx, self, Append(ctx.info[PosOf(ctx, self)].owns, other)),
                 other, self)

\* the recording branch of Tensor.__rmatmul__
Tensor_rmatmul_context(ctx, self, other) == update_owner(ctx, other, self)

\* the context after x @ y, heap being the Tensors before it
matmul_context(ctx, heap, x, y) ==
    IF IsTensor(x) THEN Tensor_matmul_context(ctx, x, y)
    ELSE IF IsTensor(y) THEN Tensor_rmatmul_context(ctx, y, x)
    ELSE Tensor_queue_context(ctx, TensorRef(Len(heap) + 1), <<x, y>>)

OwnershipEffect(act, args, r, ctx) ==
    /\ tensors' = r.heap
    /\ queue' = ctx.queue
    /\ info' = ctx.info
    /\ last' = TensorCall(act, args, r.out)

\* Tensor(*args) within the recording context
RecordTensor(args) ==
    /\ calls < MaxTensorCalls
    /\ OwnershipEffect("Tensor", args, Tensor_init(tensors, args),
                       Tensor_queue_context(Context(queue, info),
                                            TensorRef(Len(tensors) + 1), args))
    /\ calls' = calls + 1
    /\ UNCHANGED <<ops, recording, invLog, em, listHeap>>

\* x @ y within the recording context
RecordMatmul(x, y) ==
    /\ calls < MaxTensorCalls
    /\ OwnershipEffect("matmul", <<x, y>>, matmul(tensors, x, y),
                       matmul_context(Context(queue, info), tensors, x, y))
    /\ calls' = calls + 1
    /\ UNCHANGED <<ops, recording, invLog, em, listHeap>>

\* the objects products are made of: the observables and the Tensors made
Recorded(heap) == EigvalsObservables \cup { TensorRef(t) : t \in 1..Len(heap) }

\* a recording context in which the observables have been constructed
InitOwnership ==
    /\ ops = <<>>
    /\ recording = TRUE
    /\ queue = <<PauliX0, PauliZ1, Identity2>>
    /\ info = <<NoAnnotation, NoAnnotation, NoAnnotation>>
    /\ last = NoTensorCall
    /\ invLog = <<>>
    /\ calls = 0
    /\ em = NoExpand
    /\ tensors = <<>>
    /\ listHeap = <<>>

NextOwnership ==
    \/ \E a, b \in Recorded(tensors) : RecordTensor(<<a, b>>)
    \/ \E x, y \in Recorded(tensors) : RecordMatmul(x, y)

SpecOwnership == InitOwnership /\ [][NextOwnership]_vars

----------------------------------------------------------------------------
(* Claim C28: owner and owns *)

\* C28: within a recording context, after any sequence of Tensor constructions
\* and tensor products (T @ x, x @ T), the ownership annotations agree: an
\* observable o is annotated with owner T if and only if o is listed in T's
\* owns annotation.
C28_OwnershipConsistent ==
    \A i, j \in 1..Len(queue) :
        IsTensor(queue[j]) =>
            ( info[i].owner = queue[j]
              <=> \E k \in 1..Len(info[j].owns) : info[j].owns[k] = queue[i] )

----------------------------------------------------------------------------
(* Claim C29: what prune() leaves alone *)

\* C29: Tensor.prune() changes neither the Tensor it is called on nor any of
\* its constituents: after the call the obs of the Tensor and the return_type,
\* wires and data of every constituent are what they were before, in each of
\* the three pruning cases.
C29_PruneFrame ==
    [][ last'.act = "prune" =>
            LET t == last'.args[1].ref
            IN  /\ Len(tensors'[t].obs) = Len(tensors[t].obs)
                /\ \A i \in 1..Len(tensors[t].obs) :
                      /\ tensors'[t].obs[i].name = tensors[t].obs[i].name
                      /\ tensors'[t].obs[i].return_type = tensors[t].obs[i].return_type
                      /\ tensors'[t].obs[i].wires = tensors[t].obs[i].wires
                      /\ tensors'[t].obs[i].data = tensors[t].obs[i].data
       ]_vars

\* prune() of a Tensor that no measurement function was applied to, or that
\* has none or several constituents other than Identity
PruneFrameUnmeasured ==
    [][ ( /\ last'.act = "prune"
          /\ \/ tensors[last'.args[1].ref].return_type = None
             \/ Len(non_identity_obs(tensors[last'.args[1].ref])) # 1 ) =>
            tensors'[last'.args[1].ref] = tensors[last'.args[1].ref]
       ]_vars

====
